---- MODULE Spec2Model ----
(***************************************************************************)
(* Model of the claude-direct tool-use loop (src/claude-direct/tool-loop.ts *)
(* executeToolLoop).  One loop execution is a sequential process; pc is     *)
(* its position: "loop" (the while test), "await" (client.queryRaw in       *)
(* flight), "tools" (the for loop over tool_use blocks), "handler" (a tool  *)
(* handler in flight), "callback" (onToolUse being called), "done" (the     *)
(* return statement was reached) and "aborted" (an exception left the       *)
(* function).  Strings are TLA+ strings, so template literals and           *)
(* Array.join are computed with \o.  The client call is the environment:   *)
(* it answers with any reply or rejects (ClaudeDirect in index.ts defines   *)
(* no queryRaw, so with that class the first call rejects).                 *)
(***************************************************************************)
EXTENDS Integers, Sequences, FiniteSets, TLC

\* ---------------------------------------------------------------- bounds
\* largest maxTurns option explored
MaxTurnsBound == 2

\* ------------------------------------------------------- data of the run
\* the input every tool_use block of the model carries
ToolInput == "15+27"

TextBlock(t) == [type |-> "text", text |-> t]

ToolUseBlock(i, n) == [type |-> "tool_use", id |-> i, name |-> n, input |-> ToolInput]

ToolResultBlock(i, c, e) == [type |-> "tool_result", tool_use_id |-> i, content |-> c, is_error |-> e]

Message(r, c) == [role |-> r, content |-> c]

\* own properties of the toolHandlers object the caller passes
Registered == {"calculator"}

\* properties every object literal inherits from Object.prototype and that
\* return normally when called as a plain function
Inherited == {"toString"}

\* contents of the replies the upstream model may produce
ReplyContents ==
  { <<>>,
    <<TextBlock("a")>>,
    <<TextBlock("a"), TextBlock("b")>>,
    <<ToolUseBlock("toolu_1", "calculator")>>,
    <<TextBlock("a"), ToolUseBlock("toolu_1", "calculator")>>,
    <<ToolUseBlock("toolu_1", "calculator"), ToolUseBlock("toolu_2", "no_such_tool")>>,
    <<ToolUseBlock("toolu_1", "toString")>>,
    <<ToolUseBlock("toolu_1", "no_such_tool"), TextBlock("b"), ToolUseBlock("toolu_2", "calculator")>> }

StopReasons == {"end_turn", "tool_use", "max_tokens"}

\* response.usage: absent (<<>>) or one record of counts
Usages == { <<>>, <<[input_tokens |-> 3, output_tokens |-> 2]>> }

Replies == [content : ReplyContents, stop_reason : StopReasons, usage : Usages]

\* options.messages the caller may pass
InitialTranscripts ==
  { <<Message("user", <<TextBlock("q")>>)>>,
    <<Message("user", <<TextBlock("q")>>),
      Message("assistant", <<TextBlock("a")>>),
      Message("user", <<TextBlock("q")>>)>> }

\* messages a throwing handler may carry in err.message
ErrMessages == {"boom"}

\* ------------------------------------------------------------ operators
\* Array.prototype.join("\n") over the text of the text blocks
RECURSIVE JoinNL(_)
JoinNL(ts) ==
  IF ts = <<>> THEN ""
  ELSE IF Len(ts) = 1 THEN ts[1].text
  ELSE ts[1].text \o "\n" \o JoinNL(Tail(ts))

IsText(b) == b.type = "text"

IsToolUse(b) == b.type = "tool_use"

ExtractText(content) == JoinNL(SelectSeq(content, IsText))

InputTokens(r) == IF r.usage = <<>> THEN 0 ELSE r.usage[1].input_tokens

OutputTokens(r) == IF r.usage = <<>> THEN 0 ELSE r.usage[1].output_tokens

\* toolHandlers[name]: own property, else the prototype chain, else undefined
Lookup(n) ==
  IF n \in Registered THEN "own"
  ELSE IF n \in Inherited THEN "inherited"
  ELSE "undefined"

UnknownToolResult(n) == "Error: Unknown tool \"" \o n \o "\""

HandlerErrorResult(m) == "Error: " \o m

\* what a found handler may resolve to
HandlerOutputs(n) ==
  IF n \in Registered THEN {"42"} ELSE {"[object Undefined]"}

\* JSON.parse(JSON.stringify(ms)): a fresh array of fresh role/content objects
JsonClone(ms) == [i \in 1..Len(ms) |-> Message(ms[i].role, ms[i].content)]

VARIABLES
  optMessages,        \* options.messages, the caller's array
  maxTurns,           \* options.maxTurns
  onToolUse,          \* TRUE iff options.onToolUse is supplied
  messages,           \* the loop's transcript
  turns, totalInputTokens, totalOutputTokens, toolCalls, finalContent,
  toolUseBlocks, toolResults, idx,   \* locals of the tool_use branch
  pc,
  calls,              \* number of client.queryRaw calls issued
  sent,               \* number of messages each call was given
  replies,            \* replies received so far
  warnings,           \* console.warn output
  error,              \* what left the function as an exception
  cbLog,              \* arguments onToolUse was called with
  outcomes,           \* per toolCalls entry: "no_handler", "returned", "raised"
  \* ---- the direct client (src/claude-direct/index.ts, class ClaudeDirect)
  cfg,                \* this.config: minimal, skipTelemetry, skipQuotaCheck, oauthToken
  featureFlags,       \* this.featureFlags: <<>> is null, <<f>> is the mapping f
  featureFlagsExpiry, \* this.featureFlagsExpiry
  now,                \* Date.now(), in minutes
  cpc,                \* position of the operation in progress
  op,                 \* the operation in progress: "query", "stream", "flags"
  ops,                \* number of operations started
  net,                \* every fetch call the client has issued, in order
  result,             \* <<>> or <<r>>: what the operation returned
  cerror,             \* message of the exception that left the operation
  raisedBy,           \* the await the exception came from
  pending,            \* telemetry posts in flight
  lastTelemetry,      \* how the latest telemetry post settled
  response,           \* <<>> or <<r>>: what the inference fetch resolved to
  fetchedAt,          \* Date.now() at the latest assignment of this.featureFlags
  wire,               \* what the response body stream has yet to deliver
  stream,             \* everything the response body stream delivers
  buffer, streamContent, inputTokens, outputTokens, stopReason,  \* locals of queryStream
                      \* (streamContent is its local content)
  yielded,            \* the text increments the generator has yielded
  \* ---- the traffic recorder (src/claude-direct/testing/test-sdk-tool-loop.ts)
  trafficLog,         \* the module's trafficLog array
  originalFetch,      \* the module's originalFetch: <<>> is null, <<f>> is f
  globalFetch,        \* globalThis.fetch: NativeFetch or a hook
  fetches,            \* number of calls made through globalThis.fetch
  inflight,           \* the calls whose underlying fetch has not settled
  underlying,         \* the calls handed to the native fetch, in order
  settled,            \* how the native fetch settled each call
  observed,           \* what the caller of each call got
  lastIndex,          \* lastIndex of the RegExp the installed hook filters with
  issued,             \* per call: its url, and globalThis.fetch when it was made
  entryCalls,         \* per trafficLog element: the call whose entry object it is
  returned,           \* the array the latest getTrafficLog() returned, as its caller holds it
  lastCall,           \* the latest call of the recorder's interface, where a specification keeps it
  log1, log2,         \* the arguments of a compareTrafficLogs call
  comparison,         \* <<>>, or <<r>> for the object r that call returned
  \* ---- several executeToolLoop executions over one caller array
  heap,               \* the arrays in memory: reference -> its elements
  transcriptOf,       \* per execution: the reference its messages variable holds
  appended,           \* per execution: the entries it has pushed, in order
  given,              \* per execution: the messages its latest client call was given
  xpc,                \* per execution: its position
  xturns,             \* per execution: its turns counter
  \* ---- the benchmark harness (src/claude-direct/testing/benchmark.ts)
  warmup, iterations, \* options.warmup, options.iterations after defaulting
  impl,               \* index in implementations of the one being run
  runIndex,           \* the loop counter i of the warmup or timed loop
  times,              \* the times array of the implementation being run
  results,            \* the results array
  bpc,                \* position of runBenchmark
  runs,               \* every call of an impl.fn, in order
  comparisonLines,    \* the lines the comparison section has written
  \* ---- concurrent fetchFeatureFlags calls on one client
  fpc,                \* per call: its position
  fres,               \* per call: what its fetch resolved to
  processed           \* the responses whose flags were assigned, in order

loopVars == <<optMessages, maxTurns, onToolUse, messages, turns, totalInputTokens,
              totalOutputTokens, toolCalls, finalContent, toolUseBlocks,
              toolResults, idx, pc, calls, sent, replies, warnings, error, cbLog,
              outcomes>>

streamLocals == <<buffer, streamContent, inputTokens, outputTokens, stopReason>>

clientVars == <<cfg, featureFlags, featureFlagsExpiry, now, cpc, op, ops, net,
                result, cerror, raisedBy, pending, lastTelemetry, response,
                fetchedAt, wire, stream, streamLocals, yielded>>

recHistory == <<underlying, settled, observed, issued>>

cmpVars == <<log1, log2, comparison>>

ownVars == <<heap, transcriptOf, appended, given, xpc, xturns>>

benchVars == <<warmup, iterations, impl, runIndex, times, results, bpc, runs,
               comparisonLines>>

flagVars == <<fpc, fres, processed>>

extVars == <<ownVars, benchVars, flagVars>>

recVars == <<trafficLog, originalFetch, globalFetch, fetches, inflight,
             lastIndex, entryCalls, returned, recHistory, lastCall, cmpVars,
             extVars>>

vars == <<loopVars, clientVars, recVars>>

config == <<optMessages, maxTurns, onToolUse>>

locals == <<toolUseBlocks, toolResults, idx>>

\* ------------------------------------------------ the client's constructor
\* the mode switches of ClaudeDirectConfig, each optional: <<>> is undefined,
\* <<b>> is b
RawConfigs == [minimal : {<<>>, <<TRUE>>, <<FALSE>>},
               skipTelemetry : {<<>>, <<TRUE>>, <<FALSE>>},
               skipQuotaCheck : {<<>>, <<TRUE>>, <<FALSE>>}]

DefaultRawConfig == [minimal |-> <<>>, skipTelemetry |-> <<>>, skipQuotaCheck |-> <<>>]

OauthToken == "sk-ant-oat01-test"

\* a ?? b
Coalesce(a, b) == IF a = <<>> THEN b ELSE a[1]

\* the config object the constructor stores
Resolve(raw) ==
  [oauthToken |-> OauthToken,
   minimal |-> Coalesce(raw.minimal, TRUE),
   skipTelemetry |-> Coalesce(raw.skipTelemetry, Coalesce(raw.minimal, TRUE)),
   skipQuotaCheck |-> Coalesce(raw.skipQuotaCheck, TRUE)]

\* the client after new ClaudeDirect(raw) for some raw of raws; no method called yet
ClientConstructed(raws) ==
  /\ cfg \in {Resolve(raw) : raw \in raws}
  /\ featureFlags = <<>>
  /\ featureFlagsExpiry = 0
  /\ now = 0
  /\ cpc = "idle"
  /\ op = "none"
  /\ ops = 0
  /\ net = <<>>
  /\ result = <<>>
  /\ cerror = "none"
  /\ raisedBy = "none"
  /\ pending = {}
  /\ lastTelemetry = "none"
  /\ response = <<>>
  /\ fetchedAt = 0
  /\ wire = <<>>
  /\ stream = <<>>
  /\ buffer = ""
  /\ streamContent = ""
  /\ inputTokens = 0
  /\ outputTokens = 0
  /\ stopReason = ""
  /\ yielded = <<>>

\* globalThis.fetch before anything is installed over it
NativeFetch == [kind |-> "native"]

\* the recorder module after it is loaded; nothing enabled, no call made
RecorderIdle ==
  /\ trafficLog = <<>>
  /\ originalFetch = <<>>
  /\ globalFetch = NativeFetch
  /\ fetches = 0
  /\ inflight = {}
  /\ underlying = <<>>
  /\ settled = {}
  /\ observed = {}
  /\ lastIndex = 0
  /\ issued = <<>>
  /\ entryCalls = <<>>
  /\ returned = <<>>
  /\ lastCall = "none"

\* the same, and compareTrafficLogs not called
\* no second execution, no benchmark and no concurrent flag fetch under way
OwnIdle ==
  /\ heap = <<>>
  /\ transcriptOf = <<>>
  /\ appended = <<>>
  /\ given = <<>>
  /\ xpc = <<>>
  /\ xturns = <<>>

BenchIdle ==
  /\ warmup = 0
  /\ iterations = 0
  /\ impl = 0
  /\ runIndex = 0
  /\ times = <<>>
  /\ results = <<>>
  /\ bpc = "idle"
  /\ runs = <<>>
  /\ comparisonLines = <<>>

FlagsIdle ==
  /\ fpc = <<>>
  /\ fres = <<>>
  /\ processed = <<>>

ExtrasIdle == OwnIdle /\ BenchIdle /\ FlagsIdle

RecorderLoaded ==
  /\ RecorderIdle
  /\ log1 = <<>>
  /\ log2 = <<>>
  /\ comparison = <<>>

\* executeToolLoop entered with options drawn from the given sets
LoopEntered(transcripts, budgets, callbacks) ==
  /\ optMessages \in transcripts
  /\ maxTurns \in budgets
  /\ onToolUse \in callbacks
  /\ messages = JsonClone(optMessages)
  /\ turns = 0
  /\ totalInputTokens = 0
  /\ totalOutputTokens = 0
  /\ toolCalls = <<>>
  /\ finalContent = ""
  /\ toolUseBlocks = <<>>
  /\ toolResults = <<>>
  /\ idx = 1
  /\ pc = "loop"
  /\ calls = 0
  /\ sent = <<>>
  /\ replies = <<>>
  /\ warnings = <<>>
  /\ error = "none"
  /\ cbLog = <<>>
  /\ outcomes = <<>>

Init ==
  /\ LoopEntered(InitialTranscripts, 0..MaxTurnsBound, BOOLEAN)
  /\ ClientConstructed({DefaultRawConfig})
  /\ RecorderLoaded
  /\ ExtrasIdle

\* the value of the return statement
Result ==
  [content |-> finalContent, turns |-> turns,
   totalInputTokens |-> totalInputTokens,
   totalOutputTokens |-> totalOutputTokens, toolCalls |-> toolCalls]

\* variant: the while test is off by one
IssueCall_OffByOne ==
  /\ pc = "loop"
  /\ turns <= maxTurns
  /\ turns' = turns + 1
  /\ calls' = calls + 1
  /\ sent' = Append(sent, Len(messages))
  /\ pc' = "await"
  /\ UNCHANGED <<clientVars, recVars, config, outcomes, messages, totalInputTokens, totalOutputTokens,
                 toolCalls, finalContent, locals, replies, warnings, error, cbLog>>

\* variant: the next call is issued while the tools of the reply are still being run
IssueCall_Eager ==
  /\ pc \in {"loop", "tools"}
  /\ turns < maxTurns
  /\ turns' = turns + 1
  /\ calls' = calls + 1
  /\ sent' = Append(sent, Len(messages))
  /\ pc' = "await"
  /\ UNCHANGED <<clientVars, recVars, config, outcomes, messages, totalInputTokens, totalOutputTokens,
                 toolCalls, finalContent, locals, replies, warnings, error, cbLog>>

\* while (turns < maxTurns) { turns++; await client.queryRaw({messages, ...})
IssueCall ==
  /\ pc = "loop"
  /\ turns < maxTurns
  /\ turns' = turns + 1
  /\ calls' = calls + 1
  /\ sent' = Append(sent, Len(messages))
  /\ pc' = "await"
  /\ UNCHANGED <<clientVars, recVars, config, outcomes, messages, totalInputTokens, totalOutputTokens,
                 toolCalls, finalContent, locals, replies, warnings, error, cbLog>>

\* variant: on leaving the while loop the text of the latest reply is returned
BudgetExhausted_LastText ==
  /\ pc = "loop"
  /\ ~(turns < maxTurns)
  /\ finalContent' = IF replies = <<>> THEN ""
                     ELSE ExtractText(replies[Len(replies)].content)
  /\ pc' = "done"
  /\ UNCHANGED <<clientVars, recVars, config, outcomes, messages, turns, totalInputTokens, totalOutputTokens,
                 toolCalls, locals, calls, sent, replies,
                 warnings, error, cbLog>>

\* the while test fails: fall through to the return statement
BudgetExhausted ==
  /\ pc = "loop"
  /\ ~(turns < maxTurns)
  /\ pc' = "done"
  /\ UNCHANGED <<clientVars, recVars, config, outcomes, messages, turns, totalInputTokens, totalOutputTokens,
                 toolCalls, finalContent, locals, calls, sent, replies,
                 warnings, error, cbLog>>

\* the awaited client call rejects: nothing catches it
ClientRaises ==
  /\ pc = "await"
  /\ pc' = "aborted"
  /\ error' = "client"
  /\ UNCHANGED <<clientVars, recVars, config, outcomes, messages, turns, totalInputTokens, totalOutputTokens,
                 toolCalls, finalContent, locals, calls, sent, replies,
                 warnings, cbLog>>

\* variant: the assistant reply is not added to the history
Receive_NoPush(r) ==
  /\ pc = "await"
  /\ totalInputTokens' = totalInputTokens + InputTokens(r)
  /\ totalOutputTokens' = totalOutputTokens + OutputTokens(r)
  /\ messages' = messages
  /\ replies' = Append(replies, r)

\* variant: the output total accumulates the input count
Receive_SwapUsage(r) ==
  /\ pc = "await"
  /\ totalInputTokens' = totalInputTokens + InputTokens(r)
  /\ totalOutputTokens' = totalOutputTokens + InputTokens(r)
  /\ messages' = Append(messages, Message("assistant", r.content))
  /\ replies' = Append(replies, r)

\* the part every reply goes through: usage totals and the assistant entry
Receive(r) ==
  /\ pc = "await"
  /\ totalInputTokens' = totalInputTokens + InputTokens(r)
  /\ totalOutputTokens' = totalOutputTokens + OutputTokens(r)
  /\ messages' = Append(messages, Message("assistant", r.content))
  /\ replies' = Append(replies, r)

\* variant: only the first content block's text is taken, as query() does
ReplyEndTurn_FirstTextOnly(r) ==
  /\ r.stop_reason = "end_turn"
  /\ Receive(r)
  /\ finalContent' = IF r.content # <<>> /\ IsText(r.content[1])
                        THEN r.content[1].text ELSE ""
  /\ pc' = "done"
  /\ UNCHANGED <<clientVars, recVars, config, outcomes, turns, toolCalls, locals, calls, sent,
                 warnings, error, cbLog>>

\* if (response.stop_reason === "end_turn") { finalContent = ...; break; }
ReplyEndTurn(r) ==
  /\ r.stop_reason = "end_turn"
  /\ Receive(r)
  /\ finalContent' = ExtractText(r.content)
  /\ pc' = "done"
  /\ UNCHANGED <<clientVars, recVars, config, outcomes, turns, toolCalls, locals, calls, sent, warnings,
                 error, cbLog>>

\* if (response.stop_reason === "tool_use"): collect the tool_use blocks
ReplyToolUse(r) ==
  /\ r.stop_reason = "tool_use"
  /\ Receive(r)
  /\ toolUseBlocks' = SelectSeq(r.content, IsToolUse)
  /\ toolResults' = <<>>
  /\ idx' = 1
  /\ pc' = "tools"
  /\ UNCHANGED <<clientVars, recVars, config, outcomes, turns, toolCalls, finalContent, calls, sent,
                 warnings, error, cbLog>>

\* variant: an unexpected stop reason is thrown instead of logged
ReplyUnexpected_Throws(r) ==
  /\ r.stop_reason # "end_turn"
  /\ r.stop_reason # "tool_use"
  /\ Receive(r)
  /\ pc' = "aborted"
  /\ error' = "stop_reason"
  /\ UNCHANGED <<clientVars, recVars, config, outcomes, turns, toolCalls, finalContent, locals,
                 calls, sent, warnings, cbLog>>

\* else { console.warn(...); break; }
ReplyUnexpected(r) ==
  /\ r.stop_reason # "end_turn"
  /\ r.stop_reason # "tool_use"
  /\ Receive(r)
  /\ warnings' = Append(warnings, "Unexpected stop_reason: " \o r.stop_reason)
  /\ pc' = "done"
  /\ UNCHANGED <<clientVars, recVars, config, outcomes, turns, toolCalls, finalContent, locals, calls, sent,
                 error, cbLog>>

\* variant: results are collected with unshift, newest first
Record_Unshift(res, isErr, how) ==
  /\ toolResults' = <<ToolResultBlock(toolUseBlocks[idx].id, res, isErr)>>
                       \o toolResults
  /\ toolCalls' = Append(toolCalls,
                         [name |-> toolUseBlocks[idx].name,
                          input |-> toolUseBlocks[idx].input, result |-> res])
  /\ outcomes' = Append(outcomes, how)
  /\ IF onToolUse
       THEN pc' = "callback" /\ idx' = idx
       ELSE pc' = "tools" /\ idx' = idx + 1
  /\ UNCHANGED <<clientVars, recVars, config, messages, turns, totalInputTokens, totalOutputTokens,
                 finalContent, toolUseBlocks, calls, sent, replies, warnings,
                 error, cbLog>>

\* variant: onToolUse is called for successful results only
Record_CallbackOnSuccess(res, isErr, how) ==
  /\ toolResults' = Append(toolResults,
                           ToolResultBlock(toolUseBlocks[idx].id, res, isErr))
  /\ toolCalls' = Append(toolCalls,
                         [name |-> toolUseBlocks[idx].name,
                          input |-> toolUseBlocks[idx].input, result |-> res])
  /\ outcomes' = Append(outcomes, how)
  /\ IF onToolUse /\ ~isErr
       THEN pc' = "callback" /\ idx' = idx
       ELSE pc' = "tools" /\ idx' = idx + 1
  /\ UNCHANGED <<clientVars, recVars, config, messages, turns, totalInputTokens, totalOutputTokens,
                 finalContent, toolUseBlocks, calls, sent, replies, warnings,
                 error, cbLog>>

\* toolResults.push, toolCalls.push, then on to the callback if there is one
Record(res, isErr, how) ==
  /\ toolResults' = Append(toolResults,
                           ToolResultBlock(toolUseBlocks[idx].id, res, isErr))
  /\ toolCalls' = Append(toolCalls,
                         [name |-> toolUseBlocks[idx].name,
                          input |-> toolUseBlocks[idx].input, result |-> res])
  /\ outcomes' = Append(outcomes, how)
  /\ IF onToolUse
       THEN pc' = "callback" /\ idx' = idx
       ELSE pc' = "tools" /\ idx' = idx + 1
  /\ UNCHANGED <<clientVars, recVars, config, messages, turns, totalInputTokens, totalOutputTokens,
                 finalContent, toolUseBlocks, calls, sent, replies, warnings,
                 error, cbLog>>

\* if (!handler): the synthesized error result
DispatchUnknown ==
  /\ pc = "tools"
  /\ idx <= Len(toolUseBlocks)
  /\ Lookup(toolUseBlocks[idx].name) = "undefined"
  /\ Record(UnknownToolResult(toolUseBlocks[idx].name), TRUE, "no_handler")

\* else: await handler(toolUse.input)
InvokeHandler ==
  /\ pc = "tools"
  /\ idx <= Len(toolUseBlocks)
  /\ Lookup(toolUseBlocks[idx].name) # "undefined"
  /\ pc' = "handler"
  /\ UNCHANGED <<clientVars, recVars, config, outcomes, messages, turns, totalInputTokens, totalOutputTokens,
                 toolCalls, finalContent, locals, calls, sent, replies,
                 warnings, error, cbLog>>

\* the awaited handler resolves with v
HandlerReturns(v) ==
  /\ pc = "handler"
  /\ v \in HandlerOutputs(toolUseBlocks[idx].name)
  /\ Record(v, FALSE, "returned")

\* variant: no try/catch around the handler call
HandlerThrows_Propagates(m) ==
  /\ pc = "handler"
  /\ Lookup(toolUseBlocks[idx].name) = "own"
  /\ pc' = "aborted"
  /\ error' = "handler"
  /\ UNCHANGED <<clientVars, recVars, config, outcomes, messages, turns, totalInputTokens,
                 totalOutputTokens, toolCalls, finalContent, locals, calls,
                 sent, replies, warnings, cbLog>>

\* catch (err): only a caller-supplied handler is taken to throw
HandlerThrows(m) ==
  /\ pc = "handler"
  /\ Lookup(toolUseBlocks[idx].name) = "own"
  /\ Record(HandlerErrorResult(m), TRUE, "raised")

\* onToolUse(name, input, result) returns
CallbackReturns ==
  /\ pc = "callback"
  /\ cbLog' = Append(cbLog, toolCalls[Len(toolCalls)])
  /\ idx' = idx + 1
  /\ pc' = "tools"
  /\ UNCHANGED <<clientVars, recVars, config, outcomes, messages, turns, totalInputTokens, totalOutputTokens,
                 toolCalls, finalContent, toolUseBlocks, toolResults, calls,
                 sent, replies, warnings, error>>

\* variant: the onToolUse call is made inside a try block that swallows
CallbackThrows_Caught ==
  /\ pc = "callback"
  /\ cbLog' = Append(cbLog, toolCalls[Len(toolCalls)])
  /\ idx' = idx + 1
  /\ pc' = "tools"
  /\ UNCHANGED <<clientVars, recVars, config, outcomes, messages, turns, totalInputTokens, totalOutputTokens,
                 toolCalls, finalContent, toolUseBlocks, toolResults, calls,
                 sent, replies, warnings, error>>

\* onToolUse throws: the call is outside the try block
CallbackThrows ==
  /\ pc = "callback"
  /\ cbLog' = Append(cbLog, toolCalls[Len(toolCalls)])
  /\ pc' = "aborted"
  /\ error' = "callback"
  /\ UNCHANGED <<clientVars, recVars, config, outcomes, messages, turns, totalInputTokens, totalOutputTokens,
                 toolCalls, finalContent, locals, calls, sent, replies,
                 warnings>>

\* variant: one user message is pushed per tool result
AppendToolResults_PerResult ==
  /\ pc = "tools"
  /\ idx > Len(toolUseBlocks)
  /\ messages' = messages \o
                   [i \in 1..Len(toolResults) |-> Message("user", <<toolResults[i]>>)]
  /\ pc' = "loop"
  /\ UNCHANGED <<clientVars, recVars, config, outcomes, turns, totalInputTokens, totalOutputTokens,
                 toolCalls, finalContent, locals, calls, sent, replies,
                 warnings, error, cbLog>>

\* variant: the tool results overwrite the last entry instead of being pushed
AppendToolResults_Overwrite ==
  /\ pc = "tools"
  /\ idx > Len(toolUseBlocks)
  /\ messages' = [messages EXCEPT ![Len(messages)] = Message("user", toolResults)]
  /\ pc' = "loop"
  /\ UNCHANGED <<clientVars, recVars, config, outcomes, turns, totalInputTokens, totalOutputTokens,
                 toolCalls, finalContent, locals, calls, sent, replies,
                 warnings, error, cbLog>>

\* after the for loop: messages.push({role: "user", content: toolResults})
AppendToolResults ==
  /\ pc = "tools"
  /\ idx > Len(toolUseBlocks)
  /\ messages' = Append(messages, Message("user", toolResults))
  /\ pc' = "loop"
  /\ UNCHANGED <<clientVars, recVars, config, outcomes, turns, totalInputTokens, totalOutputTokens, toolCalls,
                 finalContent, locals, calls, sent, replies, warnings, error,
                 cbLog>>

Next ==
  \/ IssueCall
  \/ BudgetExhausted
  \/ ClientRaises
  \/ \E r \in Replies : ReplyEndTurn(r)
  \/ \E r \in Replies : ReplyToolUse(r)
  \/ \E r \in Replies : ReplyUnexpected(r)
  \/ DispatchUnknown
  \/ InvokeHandler
  \/ \E v \in {"42", "[object Undefined]"} : HandlerReturns(v)
  \/ \E m \in ErrMessages : HandlerThrows(m)
  \/ CallbackReturns
  \/ CallbackThrows
  \/ AppendToolResults

Spec == Init /\ [][Next]_vars

\* every pending promise settles and every continuation is run
FairSpec == Spec /\ WF_vars(Next)

\* ------------------------------------------------------- claim helpers
IsPrefix(s, t) == Len(s) <= Len(t) /\ SubSeq(t, 1, Len(s)) = s

Last(s) == s[Len(s)]

\* name and input of the tool_use blocks of a reply content, in order
Requested(content) ==
  LET bs == SelectSeq(content, IsToolUse)
  IN  [i \in 1..Len(bs) |-> [name |-> bs[i].name, input |-> bs[i].input]]

\* ---------------------------------------------------------------- C1
\* C1: the transcript is append-only: every step of the loop leaves all
\* earlier entries in place and unchanged and at most appends at the end.
C1_AppendOnly == [][IsPrefix(messages, messages')]_vars

\* the transcript has grown by two tool-use rounds
C1_Witness == Len(messages) >= Len(optMessages) + 4 /\ pc = "loop"

\* ---------------------------------------------------------------- C2
\* C2: at most maxTurns inference calls are issued, and when the budget is
\* used up the loop returns (it does not raise) with turns <= maxTurns; the
\* loop always ends; with maxTurns = 1 and a first reply that stops for
\* tool_use it returns after exactly 1 turn, toolCalls holding the
\* requested calls and the text empty.
C2_BudgetInv ==
  /\ calls <= maxTurns
  /\ turns = calls
  /\ pc = "done" => turns <= maxTurns
  /\ (/\ pc = "done"
      /\ maxTurns = 1
      /\ replies # <<>>
      /\ replies[1].stop_reason = "tool_use")
     => /\ turns = 1
        /\ calls = 1
        /\ error = "none"
        /\ finalContent = ""
        /\ [i \in 1..Len(toolCalls) |->
              [name |-> toolCalls[i].name, input |-> toolCalls[i].input]]
           = Requested(replies[1].content)

C2_TurnBudget ==
  /\ []C2_BudgetInv
  /\ [][(pc = "loop" /\ ~(turns < maxTurns)) => (pc' = "done" /\ error' = "none")]_vars
  /\ <>(pc \in {"done", "aborted"})

\* budget of 1, the reply asked for two tools, the loop has returned
C2_Witness ==
  /\ pc = "done"
  /\ maxTurns = 1
  /\ replies # <<>>
  /\ replies[1].stop_reason = "tool_use"
  /\ Len(toolCalls) = 2
  /\ finalContent = ""

\* ---------------------------------------------------------------- C3
\* C3: every tool_use whose name has no registered handler, or whose handler
\* raised, gets a tool_result with is_error = TRUE and its tool_use_id; the
\* loop is not aborted by it, and once the for loop is over the results are
\* the last transcript entry.
C3_DispatchErrorFlagged ==
  LET base == Len(toolCalls) - Len(toolResults) IN
  /\ \A i \in 1..Len(toolResults) :
       (toolUseBlocks[i].name \notin Registered \/ outcomes[base + i] = "raised")
         => /\ toolResults[i].is_error
            /\ toolResults[i].tool_use_id = toolUseBlocks[i].id
  /\ (pc \in {"loop", "await"} /\ replies # <<>>)
       => messages[Len(messages)] = Message("user", toolResults)

\* ---------------------------------------------------------------- C4
ToolUseIds(content) ==
  LET bs == SelectSeq(content, IsToolUse)
  IN  [i \in 1..Len(bs) |-> bs[i].id]

ResultIds(content) == [i \in 1..Len(content) |-> content[i].tool_use_id]

\* the tool_use branch for reply k has run to its end
Processed(k) ==
  \/ k < Len(replies)
  \/ pc \in {"loop", "await", "done"}
  \/ (pc = "aborted" /\ error = "client")

\* C4: for every reply that stopped for tool_use and has been processed, the
\* entry after its assistant entry is one user turn holding exactly one
\* tool_result per tool_use block of the reply, in block order, each with
\* the block's id; no other user turn is appended.
C4_OneResultPerToolUse ==
  LET L == Len(optMessages)
      done == {k \in 1..Len(replies) :
                 replies[k].stop_reason = "tool_use" /\ Processed(k)}
  IN
  /\ Len(messages) = L + Len(replies) + Cardinality(done)
  /\ \A k \in done :
       /\ messages[L + 2 * k - 1] = Message("assistant", replies[k].content)
       /\ messages[L + 2 * k].role = "user"
       /\ \A j \in 1..Len(messages[L + 2 * k].content) :
            messages[L + 2 * k].content[j].type = "tool_result"
       /\ ResultIds(messages[L + 2 * k].content) = ToolUseIds(replies[k].content)

\* a reply with two tool_use blocks has been answered
C4_Witness ==
  /\ pc = "loop"
  /\ Len(toolResults) = 2
  /\ messages[Len(messages)] = Message("user", toolResults)
  /\ toolResults[1].tool_use_id # toolResults[2].tool_use_id

RECURSIVE Concatenated(_)
Concatenated(ts) ==
  IF ts = <<>> THEN "" ELSE ts[1].text \o Concatenated(Tail(ts))

\* the first n texts with a line feed between neighbours, built left to right
RECURSIVE LineJoined(_, _)
LineJoined(ts, n) ==
  IF n = 0 THEN ""
  ELSE IF n = 1 THEN ts[1].text
  ELSE LineJoined(ts, n - 1) \o "\n" \o ts[n].text

\* tool_use blocks of the tool_use replies among the first k replies
RECURSIVE RequestedUpTo(_)
RequestedUpTo(k) ==
  IF k = 0 THEN <<>>
  ELSE RequestedUpTo(k - 1) \o
       (IF replies[k].stop_reason = "tool_use"
          THEN Requested(replies[k].content) ELSE <<>>)

EndedNaturally == replies # <<>> /\ Last(replies).stop_reason = "end_turn"

\* after an end_turn reply: Done, no further call, none of its tools run
EndTurnStops ==
  /\ pc = "done"
  /\ error = "none"
  /\ calls = Len(replies)
  /\ Len(toolCalls) = Len(RequestedUpTo(Len(replies) - 1))

\* C6 as stated: on end_turn the loop is Done with no further call or tool
\* execution and the text is the concatenation of the reply's text segments.
C6_TextIsConcatenation ==
  EndedNaturally =>
    /\ EndTurnStops
    /\ finalContent = Concatenated(SelectSeq(Last(replies).content, IsText))

\* C6 amended: on end_turn the loop is Done with no further call or tool
\* execution and the text is the reply's text segments, in order, joined
\* with a line feed between consecutive segments.
C6_TextIsLineJoined ==
  EndedNaturally =>
    LET ts == SelectSeq(Last(replies).content, IsText)
    IN  /\ EndTurnStops
        /\ finalContent = LineJoined(ts, Len(ts))

\* the final reply carried two text segments
C6_Witness ==
  /\ EndedNaturally
  /\ pc = "done"
  /\ Len(SelectSeq(Last(replies).content, IsText)) = 2
  /\ finalContent = "a\nb"

\* ---------------------------------------------------------------- C7
UnexpectedStop ==
  /\ replies # <<>>
  /\ Last(replies).stop_reason \notin {"end_turn", "tool_use"}

\* text segments of every reply received so far, in order
RECURSIVE TextsUpTo(_)
TextsUpTo(k) ==
  IF k = 0 THEN <<>>
  ELSE TextsUpTo(k - 1) \o SelectSeq(replies[k].content, IsText)

\* after an unexpected stop: one warning, Done, no raise, no further call
UnexpectedStopEnds ==
  /\ pc = "done"
  /\ error = "none"
  /\ calls = Len(replies)
  /\ warnings = <<"Unexpected stop_reason: " \o Last(replies).stop_reason>>

C8_TranscriptGrowth ==
  Len(optMessages) = 1 =>
    /\ \A n \in 1..Len(sent) : sent[n] = 1 + 2 * (n - 1)
    /\ pc = "loop" => Len(messages) = 1 + 2 * Len(replies)
    /\ \A k \in 1..Len(replies) :
         (replies[k].stop_reason = "tool_use" /\ Processed(k)) =>
           /\ Len(messages) >= 1 + 2 * k
           /\ messages[2 * k].role = "assistant"
           /\ messages[2 * k].content = replies[k].content
           /\ messages[2 * k + 1].role = "user"
           /\ \A j \in 1..Len(messages[2 * k + 1].content) :
                messages[2 * k + 1].content[j].type = "tool_result"

\* two tool-use turns processed: five entries, calls were given 1 and 3
C8_Witness ==
  /\ Len(optMessages) = 1
  /\ pc = "loop"
  /\ Len(replies) = 2
  /\ Len(messages) = 5
  /\ sent = <<1, 3>>
  /\ Len(toolCalls) >= 3

\* ---------------------------------------------------------------- C9
NoToolUse == \A k \in 1..Len(replies) : replies[k].stop_reason # "tool_use"

\* C9 as stated: without tool use the transcript has exactly 1 entry when
\* the loop returns.
C9_OneEntry ==
  (Len(optMessages) = 1 /\ pc = "done" /\ NoToolUse) => Len(messages) = 1

\* C9 amended: without tool use the loop returns after at most one reply;
\* the call was given 1 entry and on return the transcript has 2 entries,
\* the caller's user entry and the assistant reply (1 entry only when no
\* call was made at all).
C9_TwoEntries ==
  (Len(optMessages) = 1 /\ pc = "done" /\ NoToolUse) =>
    IF replies = <<>>
      THEN maxTurns = 0 /\ Len(messages) = 1
      ELSE /\ Len(replies) = 1
           /\ sent = <<1>>
           /\ messages = <<optMessages[1],
                           Message("assistant", replies[1].content)>>

\* one reply, ended naturally, loop returned
C9_Witness ==
  /\ Len(optMessages) = 1
  /\ pc = "done"
  /\ Len(replies) = 1
  /\ replies[1].stop_reason = "end_turn"
  /\ Len(messages) = 2

\* --------------------------------------------------------------- C10
RECURSIVE SumInput(_)
SumInput(k) ==
  IF k = 0 THEN 0
  ELSE SumInput(k - 1) +
       (IF replies[k].usage = <<>> THEN 0 ELSE replies[k].usage[1].input_tokens)

RECURSIVE SumOutput(_)
SumOutput(k) ==
  IF k = 0 THEN 0
  ELSE SumOutput(k - 1) +
       (IF replies[k].usage = <<>> THEN 0 ELSE replies[k].usage[1].output_tokens)

\* contents of the tool results the loop put into the transcript, in order
RECURSIVE FedBack(_)
FedBack(n) ==
  IF n <= Len(optMessages) THEN <<>>
  ELSE FedBack(n - 1) \o
       (IF messages[n].role = "user"
          THEN [j \in 1..Len(messages[n].content) |-> messages[n].content[j].content]
          ELSE <<>>)

CalculatorScenario ==
  /\ Len(replies) = 2
  /\ replies[1].stop_reason = "tool_use"
  /\ Requested(replies[1].content) = <<[name |-> "calculator", input |-> ToolInput]>>
  /\ outcomes = <<"returned">>
  /\ replies[2].stop_reason = "end_turn"

\* C10: on return, turns is the number of replies received, the token
\* totals are the sums of the replies' usage counts, and toolCalls lists
\* every requested call in request order with the result fed back for it;
\* one calculator call answered "42" followed by end_turn gives turns = 2
\* and toolCalls = [calculator -> "42"].
C10_ResultTotals ==
  pc = "done" =>
    /\ Result.turns = Len(replies)
    /\ Result.totalInputTokens = SumInput(Len(replies))
    /\ Result.totalOutputTokens = SumOutput(Len(replies))
    /\ [i \in 1..Len(Result.toolCalls) |->
          [name |-> Result.toolCalls[i].name, input |-> Result.toolCalls[i].input]]
       = RequestedUpTo(Len(replies))
    /\ [i \in 1..Len(Result.toolCalls) |-> Result.toolCalls[i].result]
       = FedBack(Len(messages))
    /\ CalculatorScenario =>
         /\ Result.turns = 2
         /\ Result.toolCalls =
              <<[name |-> "calculator", input |-> ToolInput, result |-> "42"]>>

\* the calculator scenario has returned, with usage reported on both replies
C10_Witness ==
  /\ pc = "done"
  /\ CalculatorScenario
  /\ totalInputTokens = 6
  /\ totalOutputTokens = 4

\* ======================================================================
\* The direct client (src/claude-direct/index.ts, class ClaudeDirect).  One
\* client runs one operation at a time; cpc is the await the operation is
\* suspended at: "flags" (the feature-flag fetch), "quota" (the quota
\* probe), "inference" (the /v1/messages fetch), "reading" (reader.read()),
\* or where it ended: "returned", "raised".  An action runs the code from
\* one settled await to the next.  Telemetry posts are promises nobody
\* awaits: they sit in pending until the network settles them.
\* ======================================================================

\* ---------------------------------------------------------------- bounds
\* operations one client is asked to run
MaxOps == 2

\* latest reading of the clock
MaxClock == 5

\* -------------------------------------------------------------- constants
\* 5 * 60 * 1000 ms, in minutes
FlagsTtl == 5

API_BASE == "https://api.anthropic.com"

DATADOG_ENDPOINT == "https://http-intake.logs.us5.datadoghq.com/api/v2/logs"

MessagesUrl == API_BASE \o "/v1/messages?beta=true"

EvalUrl == API_BASE \o "/api/eval/" \o "sdk-zAZezfDKGoZuXXKe"

EventLoggingUrl == API_BASE \o "/api/event_logging/batch"

\* Array.prototype.join(",")
RECURSIVE JoinComma(_)
JoinComma(ss) ==
  IF ss = <<>> THEN ""
  ELSE IF Len(ss) = 1 THEN ss[1]
  ELSE ss[1] \o "," \o JoinComma(Tail(ss))

BETA_FLAGS ==
  JoinComma(<<"oauth-2025-04-20", "interleaved-thinking-2025-05-14",
              "context-management-2025-06-27", "prompt-caching-scope-2026-01-05">>)

\* variant: the OAuth capability is left out of the beta set
GetHeaders_NoOauth ==
  ("Content-Type" :> "application/json") @@ ("Accept" :> "application/json")
  @@ ("Authorization" :> "Bearer " \o cfg.oauthToken)
  @@ ("anthropic-version" :> "2023-06-01")
  @@ ("anthropic-beta" :> "interleaved-thinking-2025-05-14")
  @@ ("anthropic-dangerous-direct-browser-access" :> "true")
  @@ ("x-app" :> "cli")
  @@ ("User-Agent" :> "claude-cli/2.1.29 (external, cli, agent-sdk/0.2.29)")

getHeaders ==
  ("Content-Type" :> "application/json") @@ ("Accept" :> "application/json")
  @@ ("Authorization" :> "Bearer " \o cfg.oauthToken)
  @@ ("anthropic-version" :> "2023-06-01")
  @@ ("anthropic-beta" :> BETA_FLAGS)
  @@ ("anthropic-dangerous-direct-browser-access" :> "true")
  @@ ("x-app" :> "cli")
  @@ ("User-Agent" :> "claude-cli/2.1.29 (external, cli, agent-sdk/0.2.29)")

\* { ...this.getHeaders(), "Accept": "text/event-stream" }
StreamHeaders == ("Accept" :> "text/event-stream") @@ getHeaders

DatadogHeaders ==
  ("Accept" :> "application/json, text/plain, */*")
  @@ ("Content-Type" :> "application/json")
  @@ ("DD-API-KEY" :> "pubbbf48e6d78dae54bceaa4acf463299bf")
  @@ ("User-Agent" :> "axios/1.8.4")

\* one fetch call; payload names what the JSON body carries, n the operation
Request(url, headers, payload, n) ==
  [url |-> url, method |-> "POST", headers |-> headers, body |-> payload, op |-> n]

FlagsRequest(n) == Request(EvalUrl, getHeaders, "attributes", n)

QuotaRequest(n) == Request(MessagesUrl, getHeaders, "quota", n)

InferenceRequest(o, n) ==
  IF o = "stream" THEN Request(MessagesUrl, StreamHeaders, "messages,stream", n)
  ELSE Request(MessagesUrl, getHeaders, "messages", n)

\* the two fetch calls of sendTelemetry, in the order it issues them
TelemetryPosts(n) ==
  << Request(EventLoggingUrl, getHeaders, "events", n),
     Request(DATADOG_ENDPOINT, DatadogHeaders, "tengu_api_success", n) >>

\* ------------------------------------------------- what the network answers
\* data.features of the feature-flag response: absent (<<>>) or a mapping,
\* here the set of the flags it switches on
FeatureSets == { <<>>, <<{"tengu_a"}>> }

\* JSON bodies of a successful inference response
BodyContents ==
  { <<>>,
    <<TextBlock("a")>>,
    <<TextBlock("a"), TextBlock("b")>>,
    <<ToolUseBlock("toolu_1", "calculator")>> }

Bodies == [content : BodyContents, stop_reason : {"end_turn"}, usage : Usages]

\* res.status of a response that is not ok, and what res.text() gives
FailureStatuses == {"401", "529"}

ErrorTexts == {"", "overloaded"}

\* what the inference fetch resolves to: res.status, res.ok, and the body
\* (the parsed JSON, the text of an error, or a mark for a stream or no body)
Response(status, payload) == [status |-> status, ok |-> status = "200", body |-> payload]

\* what a telemetry post can settle to
TelemetryOutcomes == {"ok", "status", "exception"}

\* ------------------------------------------------------------ operators
\* the QueryResult query builds from the parsed body
QueryResult(b) ==
  [content |-> IF b.content # <<>> /\ "text" \in DOMAIN b.content[1]
               THEN b.content[1].text ELSE "",
   inputTokens |-> IF b.usage = <<>> THEN 0 ELSE b.usage[1].input_tokens,
   outputTokens |-> IF b.usage = <<>> THEN 0 ELSE b.usage[1].output_tokens,
   stopReason |-> b.stop_reason]

\* variant: the cache is still served at the instant it expires
CacheFresh_Inclusive == featureFlags # <<>> /\ now <= featureFlagsExpiry

\* this.featureFlags && Date.now() < this.featureFlagsExpiry
CacheFresh == featureFlags # <<>> /\ now < featureFlagsExpiry

\* an exception leaves the operation
Raise(msg, by) ==
  /\ cpc' = "raised"
  /\ cerror' = msg
  /\ raisedBy' = by

\* the code after fetchFeatureFlags has produced flags, up to the next await
Proceed(o, n, flags) ==
  IF o = "flags"
  THEN /\ cpc' = "returned"
       /\ result' = <<[flags |-> flags]>>
       /\ net' = net
  ELSE IF o = "query" /\ ~cfg.skipQuotaCheck
  THEN /\ cpc' = "quota"
       /\ result' = <<>>
       /\ net' = Append(net, QuotaRequest(n))
  ELSE /\ cpc' = "inference"
       /\ result' = <<>>
       /\ net' = Append(net, InferenceRequest(o, n))

\* if (!this.config.skipTelemetry) this.sendTelemetry(...).catch(() => {})
Telemetry(n) ==
  IF ~cfg.skipTelemetry
  THEN /\ net' = net \o TelemetryPosts(n)
       /\ pending' = pending \cup {[op |-> n, sink |-> "anthropic"], [op |-> n, sink |-> "datadog"]}
  ELSE /\ net' = net
       /\ pending' = pending

\* --------------------------------------------------------------- actions
\* the caller invokes query, queryStream or fetchFeatureFlags
Call(o) ==
  /\ cpc \in {"idle", "returned", "raised"}
  /\ ops < MaxOps
  /\ op' = o
  /\ ops' = ops + 1
  /\ cerror' = "none"
  /\ raisedBy' = "none"
  /\ response' = <<>>
  /\ wire' = <<>>
  /\ stream' = <<>>
  /\ buffer' = ""
  /\ streamContent' = ""
  /\ inputTokens' = 0
  /\ outputTokens' = 0
  /\ stopReason' = ""
  /\ yielded' = <<>>
  /\ IF cfg.minimal THEN Proceed(o, ops + 1, {})
     ELSE IF CacheFresh THEN Proceed(o, ops + 1, featureFlags[1])
     ELSE /\ cpc' = "flags"
          /\ result' = <<>>
          /\ net' = Append(net, FlagsRequest(ops + 1))
  /\ UNCHANGED <<loopVars, recVars, cfg, featureFlags, featureFlagsExpiry, now, pending,
                 lastTelemetry, fetchedAt>>

\* the feature-flag response is ok and its body parses
FlagsOk(features) ==
  /\ cpc = "flags"
  /\ LET flags == IF features = <<>> THEN {} ELSE features[1] IN
       /\ featureFlags' = <<flags>>
       /\ featureFlagsExpiry' = now + FlagsTtl
       /\ fetchedAt' = now
       /\ Proceed(op, ops, flags)
  /\ UNCHANGED <<loopVars, recVars, cfg, now, op, ops, cerror, raisedBy, pending,
                 lastTelemetry, response, wire, stream, streamLocals, yielded>>

\* variant: a response that is not ok is treated like a rejected fetch
FlagsNotOk_Fatal ==
  /\ cpc = "flags"
  /\ Raise("Feature flags failed", "flags")
  /\ UNCHANGED <<loopVars, recVars, cfg, featureFlags, featureFlagsExpiry, now, op, ops,
                 net, result, pending, lastTelemetry, response, fetchedAt, wire,
                 stream, streamLocals, yielded>>

\* the feature-flag response is not ok
FlagsNotOk ==
  /\ cpc = "flags"
  /\ Proceed(op, ops, {})
  /\ UNCHANGED <<loopVars, recVars, cfg, featureFlags, featureFlagsExpiry, now, op, ops,
                 cerror, raisedBy, pending, lastTelemetry, response, fetchedAt, wire,
                 stream, streamLocals, yielded>>

\* the feature-flag response is ok and res.json() rejects
FlagsUnparsable ==
  /\ cpc = "flags"
  /\ Raise("Unexpected token < in JSON at position 0", "flags")
  /\ UNCHANGED <<loopVars, recVars, cfg, featureFlags, featureFlagsExpiry, now, op, ops,
                 net, result, pending, lastTelemetry, response, fetchedAt, wire,
                 stream, streamLocals, yielded>>

\* the feature-flag fetch rejects
FlagsNetworkError ==
  /\ cpc = "flags"
  /\ Raise("fetch failed", "flags")
  /\ UNCHANGED <<loopVars, recVars, cfg, featureFlags, featureFlagsExpiry, now, op, ops,
                 net, result, pending, lastTelemetry, response, fetchedAt, wire,
                 stream, streamLocals, yielded>>

\* the quota probe is answered, with any status
QuotaResponds ==
  /\ cpc = "quota"
  /\ cpc' = "inference"
  /\ net' = Append(net, InferenceRequest(op, ops))
  /\ UNCHANGED <<loopVars, recVars, cfg, featureFlags, featureFlagsExpiry, now, op, ops,
                 result, cerror, raisedBy, pending, lastTelemetry, response,
                 fetchedAt, wire, stream, streamLocals, yielded>>

\* the quota probe rejects
QuotaNetworkError ==
  /\ cpc = "quota"
  /\ Raise("fetch failed", "quota")
  /\ UNCHANGED <<loopVars, recVars, cfg, featureFlags, featureFlagsExpiry, now, op, ops,
                 net, result, pending, lastTelemetry, response, fetchedAt, wire,
                 stream, streamLocals, yielded>>

\* variant: a failed inference request is sent once more
InferenceFails_Retry(status, text) ==
  /\ cpc = "inference"
  /\ net' = Append(net, InferenceRequest(op, ops))
  /\ response' = <<Response(status, text)>>
  /\ Raise("Inference failed: " \o status \o " " \o text, "inference")
  /\ UNCHANGED <<loopVars, recVars, cfg, featureFlags, featureFlagsExpiry, now, op, ops,
                 result, pending, lastTelemetry, fetchedAt, wire,
                 stream, streamLocals, yielded>>

\* variant: telemetry is sent for a failed inference response as well
InferenceFails_Telemetry(status, text) ==
  /\ cpc = "inference"
  /\ response' = <<Response(status, text)>>
  /\ Raise("Inference failed: " \o status \o " " \o text, "inference")
  /\ Telemetry(ops)
  /\ UNCHANGED <<loopVars, recVars, cfg, featureFlags, featureFlagsExpiry, now, op, ops,
                 result, lastTelemetry, fetchedAt, wire,
                 stream, streamLocals, yielded>>

\* the inference response is not ok; res.text() gives text
InferenceFails(status, text) ==
  /\ cpc = "inference"
  /\ response' = <<Response(status, text)>>
  /\ Raise("Inference failed: " \o status \o " " \o text, "inference")
  /\ UNCHANGED <<loopVars, recVars, cfg, featureFlags, featureFlagsExpiry, now, op, ops,
                 net, result, pending, lastTelemetry, fetchedAt, wire,
                 stream, streamLocals, yielded>>

\* the inference fetch rejects
InferenceNetworkError ==
  /\ cpc = "inference"
  /\ Raise("fetch failed", "inference")
  /\ UNCHANGED <<loopVars, recVars, cfg, featureFlags, featureFlagsExpiry, now, op, ops,
                 net, result, pending, lastTelemetry, response, fetchedAt, wire,
                 stream, streamLocals, yielded>>

\* query: the inference response is ok and its body parses to b
QueryResponds(b) ==
  /\ cpc = "inference"
  /\ op = "query"
  /\ response' = <<Response("200", b)>>
  /\ result' = <<QueryResult(b)>>
  /\ Telemetry(ops)
  /\ cpc' = "returned"
  /\ UNCHANGED <<loopVars, recVars, cfg, featureFlags, featureFlagsExpiry, now, op, ops,
                 cerror, raisedBy, lastTelemetry, fetchedAt, wire, stream,
                 streamLocals, yielded>>

\* variant: a rejected telemetry post reaches the caller
TelemetrySettles_Propagates(p, how) ==
  /\ p \in pending
  /\ pending' = pending \ {p}
  /\ lastTelemetry' = how
  /\ IF how = "exception"
     THEN /\ Raise("fetch failed", "telemetry")
          /\ result' = <<>>
     ELSE UNCHANGED <<cpc, cerror, raisedBy, result>>
  /\ UNCHANGED <<loopVars, recVars, cfg, featureFlags, featureFlagsExpiry, now, op, ops,
                 net, response, fetchedAt, wire, stream, streamLocals, yielded>>

\* a telemetry post settles: ok, a status that is not ok, or a rejection
TelemetrySettles(p, how) ==
  /\ p \in pending
  /\ pending' = pending \ {p}
  /\ lastTelemetry' = how
  /\ UNCHANGED <<loopVars, recVars, cfg, featureFlags, featureFlagsExpiry, now, cpc, op,
                 ops, net, result, cerror, raisedBy, response, fetchedAt, wire,
                 stream, streamLocals, yielded>>

\* time passes
Tick ==
  /\ now < MaxClock
  /\ now' = now + 1
  /\ UNCHANGED <<loopVars, recVars, cfg, featureFlags, featureFlagsExpiry, cpc, op, ops,
                 net, result, cerror, raisedBy, pending, lastTelemetry, response,
                 fetchedAt, wire, stream, streamLocals, yielded>>

\* ------------------------------------------------------ the event stream
\* The response body of a streaming request is a text cut into pieces; a
\* chunk handed out by reader.read() is a run of pieces, so a line may
\* arrive in one chunk or split over several.  No piece but NL holds "\n".
\* ---------------------------------------------------------------- bounds
\* lines one response body stream carries
MaxLines == 3

NL == "\n"

DataPrefix == "data: "

StartJson == "{\"type\":\"message_start\",\"message\":{\"usage\":{\"input_tokens\":3}}}"

DeltaHead(i) == "{\"type\":\"content_block_delta\",\"index\":" \o i \o ","

DeltaTail(t) == "\"delta\":{\"type\":\"text_delta\",\"text\":\"" \o t \o "\"}}"

MessageDeltaJson ==
  "{\"type\":\"message_delta\",\"delta\":{\"stop_reason\":\"end_turn\"},\"usage\":{\"output_tokens\":2}}"

\* an event as the loop body reads it; a field the JSON text lacks is the
\* falsy value of its type
Event(type, index, text, stop, inTok, outTok) ==
  [type |-> type, index |-> index, text |-> text, stop_reason |-> stop,
   input_tokens |-> inTok, output_tokens |-> outTok]

\* JSON.parse on the texts the streams are built from; <<>> is a SyntaxError
ParseJson(text) ==
  CASE text = StartJson -> <<Event("message_start", 0, "", "", 3, 0)>>
    [] text = DeltaHead("0") \o DeltaTail("a") -> <<Event("content_block_delta", 0, "a", "", 0, 0)>>
    [] text = DeltaHead("1") \o DeltaTail("b") -> <<Event("content_block_delta", 1, "b", "", 0, 0)>>
    [] text = DeltaHead("0") \o DeltaTail("") -> <<Event("content_block_delta", 0, "", "", 0, 0)>>
    [] text = MessageDeltaJson -> <<Event("message_delta", 0, "", "end_turn", 0, 2)>>
    [] OTHER -> <<>>

\* the lines a stream is built from, each as its pieces
StartLine == <<DataPrefix, StartJson>>

DeltaLine(i, t) == <<DataPrefix, DeltaHead(i), DeltaTail(t)>>

MessageDeltaLine == <<DataPrefix, MessageDeltaJson>>

DoneLine == <<DataPrefix, "[DONE]">>

PingLine == <<"event: ping">>

\* a content_block_delta whose text is empty
EmptyDeltaLine == <<DataPrefix, DeltaHead("0"), DeltaTail("")>>

TruncatedLine == <<DataPrefix, DeltaHead("0")>>

Lines ==
  { StartLine, DeltaLine("0", "a"), DeltaLine("1", "b"), MessageDeltaLine,
    DoneLine, PingLine, EmptyDeltaLine, TruncatedLine }

\* the streams of at most k lines, every line ended by NL
RECURSIVE Terminated(_)
Terminated(k) ==
  IF k = 0 THEN {<<>>}
  ELSE LET shorter == Terminated(k - 1) IN
         shorter \cup { l \o <<NL>> \o w : l \in Lines, w \in shorter }

\* the event stream the upstream API sends for the message it would send
\* as the JSON body b: message_start with the input usage, one
\* content_block_delta per text block, message_delta with the stop reason and
\* the output usage
EncodeStream(b) ==
  StartLine \o <<NL>>
  \o (IF Len(b.content) >= 1 THEN DeltaLine("0", b.content[1].text) \o <<NL>> ELSE <<>>)
  \o (IF Len(b.content) >= 2 THEN DeltaLine("1", b.content[2].text) \o <<NL>> ELSE <<>>)
  \o MessageDeltaLine \o <<NL>>

\* the bodies whose event stream the pieces above can spell
Encodable ==
  { b \in Bodies : /\ b.usage # <<>>
                   /\ \A i \in 1..Len(b.content) : IsText(b.content[i]) }

\* the streams of at most MaxLines lines, those among them whose last line
\* the server never ended, and the streams of the encodable bodies
Streams ==
  Terminated(MaxLines)
  \cup { w \o l : w \in Terminated(MaxLines - 1), l \in Lines }
  \cup { EncodeStream(b) : b \in Encodable }

\* the stream of one text block "a"
PlainStream ==
  EncodeStream([content |-> <<TextBlock("a")>>, stop_reason |-> "end_turn",
                usage |-> <<[input_tokens |-> 3, output_tokens |-> 2]>>])

\* buffer.split("\n") over buffer followed by the chunk: the lines that are
\* complete, and lines.pop() || "" as rest
RECURSIVE SplitLines(_, _)
SplitLines(pieces, cur) ==
  IF pieces = <<>> THEN [lines |-> <<>>, rest |-> cur]
  ELSE IF Head(pieces) = NL
  THEN LET r == SplitLines(Tail(pieces), "") IN
         [lines |-> <<cur>> \o r.lines, rest |-> r.rest]
  ELSE SplitLines(Tail(pieces), cur \o Head(pieces))

StartsWith(line, prefix) ==
  Len(line) >= Len(prefix) /\ SubSeq(line, 1, Len(prefix)) = prefix

\* the if / else if chain over a parsed event; st holds the locals
HandleEvent(ev, st) ==
  IF ev.type = "content_block_delta" /\ ev.text # ""
  THEN [st EXCEPT !.content = @ \o ev.text, !.yielded = Append(@, ev.text)]
  ELSE IF ev.type = "message_delta"
  THEN [st EXCEPT !.stopReason = IF ev.stop_reason = "" THEN @ ELSE ev.stop_reason,
                  !.outputTokens = IF ev.output_tokens = 0 THEN @ ELSE ev.output_tokens]
  ELSE IF ev.type = "message_start"
  THEN [st EXCEPT !.inputTokens = IF ev.input_tokens = 0 THEN @ ELSE ev.input_tokens]
  ELSE st

\* variant: a payload that does not parse ends the stream's processing
HandleLine_Strict(line, st) ==
  IF st.broken THEN st
  ELSE IF ~StartsWith(line, DataPrefix) THEN st
  ELSE LET data == SubSeq(line, Len(DataPrefix) + 1, Len(line)) IN
         IF data = "[DONE]" THEN st
         ELSE IF ParseJson(data) = <<>> THEN [st EXCEPT !.broken = TRUE]
         ELSE HandleEvent(ParseJson(data)[1], st)

\* the body of the for loop over lines
HandleLine(line, st) ==
  IF ~StartsWith(line, DataPrefix) THEN st
  ELSE LET data == SubSeq(line, Len(DataPrefix) + 1, Len(line)) IN
         IF data = "[DONE]" THEN st
         ELSE IF ParseJson(data) = <<>> THEN st
         ELSE HandleEvent(ParseJson(data)[1], st)

RECURSIVE HandleLines(_, _)
HandleLines(lines, st) ==
  IF lines = <<>> THEN st
  ELSE HandleLines(Tail(lines), HandleLine(Head(lines), st))

\* the value of queryStream's return statement
StreamResult ==
  [content |-> streamContent, inputTokens |-> inputTokens,
   outputTokens |-> outputTokens, stopReason |-> stopReason]

\* queryStream: the inference response is ok and has a body that delivers w
StreamOpens(w) ==
  /\ cpc = "inference"
  /\ op = "stream"
  /\ response' = <<Response("200", "event-stream")>>
  /\ wire' = w
  /\ stream' = w
  /\ cpc' = "reading"
  /\ UNCHANGED <<loopVars, recVars, cfg, featureFlags, featureFlagsExpiry, now, op, ops,
                 net, result, cerror, raisedBy, pending, lastTelemetry,
                 fetchedAt, streamLocals, yielded>>

\* queryStream: the inference response is ok and res.body is null
StreamNoBody ==
  /\ cpc = "inference"
  /\ op = "stream"
  /\ response' = <<Response("200", "null")>>
  /\ Raise("No response body", "body")
  /\ UNCHANGED <<loopVars, recVars, cfg, featureFlags, featureFlagsExpiry, now, op, ops,
                 net, result, pending, lastTelemetry, fetchedAt, wire,
                 stream, streamLocals, yielded>>

\* reader.read() resolves with a chunk of n pieces; the lines it completes
\* are handled
ReadChunk(n) ==
  /\ cpc = "reading"
  /\ n \in 1..Len(wire)
  /\ wire' = SubSeq(wire, n + 1, Len(wire))
  /\ LET sp == SplitLines(SubSeq(wire, 1, n), buffer)
         st == HandleLines(sp.lines,
                 [content |-> streamContent, inputTokens |-> inputTokens,
                  outputTokens |-> outputTokens, stopReason |-> stopReason,
                  yielded |-> yielded, broken |-> FALSE])
     IN /\ buffer' = sp.rest
        /\ streamContent' = st.content
        /\ inputTokens' = st.inputTokens
        /\ outputTokens' = st.outputTokens
        /\ stopReason' = st.stopReason
        /\ yielded' = st.yielded
  /\ UNCHANGED <<loopVars, recVars, cfg, featureFlags, featureFlagsExpiry, now, cpc, op,
                 ops, net, result, cerror, raisedBy, pending, lastTelemetry,
                 response, fetchedAt, stream>>

\* variant: the generator returns a value although the read failed
ReadFails_Returns ==
  /\ cpc = "reading"
  /\ cpc' = "returned"
  /\ result' = <<StreamResult>>
  /\ UNCHANGED <<loopVars, recVars, cfg, featureFlags, featureFlagsExpiry, now, op, ops,
                 net, cerror, raisedBy, pending, lastTelemetry, response, fetchedAt,
                 wire, stream, streamLocals, yielded>>

\* reader.read() rejects
ReadFails ==
  /\ cpc = "reading"
  /\ Raise("terminated", "read")
  /\ UNCHANGED <<loopVars, recVars, cfg, featureFlags, featureFlagsExpiry, now, op, ops,
                 net, result, pending, lastTelemetry, response, fetchedAt, wire,
                 stream, streamLocals, yielded>>

\* reader.read() resolves with done: telemetry, then the return statement
ReadDone ==
  /\ cpc = "reading"
  /\ wire = <<>>
  /\ result' = <<StreamResult>>
  /\ Telemetry(ops)
  /\ cpc' = "returned"
  /\ UNCHANGED <<loopVars, recVars, cfg, featureFlags, featureFlagsExpiry, now, op, ops,
                 cerror, raisedBy, lastTelemetry, response, fetchedAt, wire, stream,
                 streamLocals, yielded>>

\* -------------------------------------------------------- specifications
Operations == {"query", "stream", "flags"}

\* one client, any configuration, used by a caller that runs operations
ClientInit ==
  /\ LoopEntered({<<Message("user", <<TextBlock("q")>>)>>}, {0}, {FALSE})
  /\ ClientConstructed(RawConfigs)
  /\ RecorderLoaded
  /\ ExtrasIdle

ClientNext ==
  \/ \E o \in Operations : Call(o)
  \/ \E f \in FeatureSets : FlagsOk(f)
  \/ FlagsNotOk
  \/ FlagsUnparsable
  \/ FlagsNetworkError
  \/ QuotaResponds
  \/ QuotaNetworkError
  \/ \E st \in FailureStatuses, t \in ErrorTexts : InferenceFails(st, t)
  \/ InferenceNetworkError
  \/ \E b \in Bodies : QueryResponds(b)
  \/ StreamOpens(PlainStream)
  \/ StreamNoBody
  \/ \E n \in 1..Len(wire) : ReadChunk(n)
  \/ ReadFails
  \/ ReadDone
  \/ \E p \in pending, how \in TelemetryOutcomes : TelemetrySettles(p, how)

ClientSpec == ClientInit /\ [][ClientNext]_vars

\* a client in full mode whose caller asks for the feature flags as time passes
FullModeRawConfig == [minimal |-> <<FALSE>>, skipTelemetry |-> <<>>, skipQuotaCheck |-> <<>>]

CacheInit ==
  /\ LoopEntered({<<Message("user", <<TextBlock("q")>>)>>}, {0}, {FALSE})
  /\ ClientConstructed({FullModeRawConfig})
  /\ RecorderLoaded
  /\ ExtrasIdle

CacheNext ==
  \/ Call("flags")
  \/ \E f \in FeatureSets : FlagsOk(f)
  \/ FlagsNotOk
  \/ FlagsUnparsable
  \/ FlagsNetworkError
  \/ Tick

CacheSpec == CacheInit /\ [][CacheNext]_vars

\* a client in the default configuration whose caller streams
StreamInit ==
  /\ LoopEntered({<<Message("user", <<TextBlock("q")>>)>>}, {0}, {FALSE})
  /\ ClientConstructed({DefaultRawConfig})
  /\ RecorderLoaded
  /\ ExtrasIdle

StreamNext ==
  \/ Call("stream")
  \/ \E st \in FailureStatuses, t \in ErrorTexts : InferenceFails(st, t)
  \/ InferenceNetworkError
  \/ cpc = "inference" /\ \E w \in Streams : StreamOpens(w)
  \/ StreamNoBody
  \/ \E n \in 1..Len(wire) : ReadChunk(n)
  \/ ReadFails
  \/ ReadDone

StreamSpec == StreamInit /\ [][StreamNext]_vars

\* ------------------------------------------------- client claim helpers
\* the requests operation n has issued, and those of them sent to /v1/messages
RequestsOf(n) == SelectSeq(net, LAMBDA r : r.op = n)

ToMessages(n) == SelectSeq(net, LAMBDA r : r.op = n /\ r.url = MessagesUrl)

TelemetryOf(n) ==
  SelectSeq(net, LAMBDA r : r.op = n /\ r.url \in {EventLoggingUrl, DATADOG_ENDPOINT})

TranscriptRequests(n) ==
  SelectSeq(net, LAMBDA r : r.op = n /\ r.url = MessagesUrl /\ r.body = "messages")

\* the query in progress got an inference response that is not ok
FailedQuery == op = "query" /\ response # <<>> /\ ~response[1].ok

FailureRaised ==
  /\ cpc = "raised"
  /\ cerror = "Inference failed: " \o response[1].status \o " " \o response[1].body

\* C11 as stated: a query whose inference response is not ok raises the
\* inference failure with the status and the body text, has sent exactly one
\* request to /v1/messages, and has sent no telemetry.
C11_OneRequestPerFailedQuery ==
  FailedQuery =>
    /\ FailureRaised
    /\ Len(ToMessages(ops)) = 1
    /\ TelemetryOf(ops) = <<>>

\* C11 amended: a query whose inference response is not ok raises the
\* inference failure with the status and the body text, has sent the request
\* carrying the transcript exactly once and no telemetry; with the quota
\* check enabled one quota probe to /v1/messages precedes that request.
C11_TranscriptSentOnce ==
  FailedQuery =>
    /\ FailureRaised
    /\ Len(TranscriptRequests(ops)) = 1
    /\ Len(ToMessages(ops)) = IF cfg.skipQuotaCheck THEN 1 ELSE 2
    /\ ~cfg.skipQuotaCheck =>
         /\ ToMessages(ops)[1] = QuotaRequest(ops)
         /\ ToMessages(ops)[2] = InferenceRequest("query", ops)
    /\ TelemetryOf(ops) = <<>>

C11_Witness ==
  /\ FailedQuery
  /\ ~cfg.skipQuotaCheck
  /\ ~cfg.skipTelemetry
  /\ response[1].status = "529"
  /\ cerror = "Inference failed: 529 overloaded"

\* C12: a client whose minimal switch is true (given or by default) sends
\* requests to /v1/messages only: no feature-flag request, no telemetry request.
C12_MinimalOnlyInference ==
  cfg.minimal => \A i \in 1..Len(net) : net[i].url = MessagesUrl

\* C13: in full mode no failure of the feature-flag fetch (a status that is
\* not ok, a rejected fetch, a body that does not parse) leaves
\* fetchFeatureFlags or the operation that called it as an exception.
C13_FlagsFailureNonFatal ==
  ~cfg.minimal => ~(cpc = "raised" /\ raisedBy = "flags")

\* what queryStream computes from a whole stream, whatever its chunks
WholeStream(w) ==
  HandleLines(SplitLines(w, "").lines,
              [content |-> "", inputTokens |-> 0, outputTokens |-> 0,
               stopReason |-> "", yielded |-> <<>>, broken |-> FALSE])

\* the result a returned operation must have, as a function of the inference
\* response alone
ResultFromResponse ==
  IF op = "query" THEN QueryResult(response[1].body)
  ELSE [content |-> WholeStream(stream).content,
        inputTokens |-> WholeStream(stream).inputTokens,
        outputTokens |-> WholeStream(stream).outputTokens,
        stopReason |-> WholeStream(stream).stopReason]

C14_ResultIgnoresTelemetry ==
  (op \in {"query", "stream"} /\ cpc = "returned") =>
    /\ result = <<ResultFromResponse>>
    /\ cerror = "none"

\* C14: the result of query and queryStream is a function of the inference
\* response alone, whether telemetry is enabled or not; the step that issues
\* the telemetry posts is the step that returns the result, so the caller
\* never waits for them; and a post that settles, however it settles, leaves
\* the caller's result and error state as they are.
C14_TelemetryDetached ==
  /\ []C14_ResultIgnoresTelemetry
  /\ [][(pending' \ pending # {}) =>
          /\ cpc' = "returned"
          /\ result' = <<ResultFromResponse'>>
          /\ pending' \ pending =
               {[op |-> ops, sink |-> "anthropic"], [op |-> ops, sink |-> "datadog"]}]_vars
  /\ [][(pending \ pending' # {}) => UNCHANGED <<cpc, result, cerror, raisedBy>>]_vars

C14_Witness ==
  /\ op \in {"query", "stream"}
  /\ cpc = "returned"
  /\ ~cfg.skipTelemetry
  /\ lastTelemetry = "exception"
  /\ pending # {}
  /\ result = <<ResultFromResponse>>
  /\ result[1].content = "a"

\* fewer than FlagsTtl minutes have passed since the flags were last fetched
WithinTtl == featureFlags # <<>> /\ now - fetchedAt < FlagsTtl

C15_ExpiryIsFetchPlusTtl ==
  featureFlags # <<>> => featureFlagsExpiry = fetchedAt + FlagsTtl

\* C15: in full mode the cache expires FlagsTtl (5 minutes) after the fetch
\* that filled it; a fetchFeatureFlags call made within that interval returns
\* the cached flags and issues no request; a call made once it has elapsed
\* issues a new feature-flag request, and the successful response to it
\* replaces the cached value and restarts the interval.
C15_TimeBoxedCache ==
  /\ []C15_ExpiryIsFetchPlusTtl
  /\ [][(Call("flags") /\ WithinTtl) =>
          /\ net' = net
          /\ cpc' = "returned"
          /\ result' = <<[flags |-> featureFlags[1]]>>
          /\ UNCHANGED <<featureFlags, featureFlagsExpiry>>]_vars
  /\ [][(Call("flags") /\ ~WithinTtl) =>
          /\ net' = Append(net, FlagsRequest(ops'))
          /\ cpc' = "flags"]_vars
  /\ [][(\E f \in FeatureSets : FlagsOk(f)) =>
          /\ featureFlags' = <<result'[1].flags>>
          /\ fetchedAt' = now
          /\ cpc' = "returned"]_vars

\* the second call is made exactly when the interval has elapsed: it fetches
\* again and the new flags replace the cached empty mapping
C15_Witness ==
  /\ ops = 2
  /\ cpc = "returned"
  /\ Len(net) = 2
  /\ now = FlagsTtl
  /\ fetchedAt = FlagsTtl
  /\ featureFlags = <<{"tengu_a"}>>
  /\ result = <<[flags |-> {"tengu_a"}]>>

\* ------------------------------------------------- stream claim helpers
\* queryStream has returned after reading the stream the API sends for b
StreamedBody(b) == op = "stream" /\ cpc = "returned" /\ stream = EncodeStream(b)

\* C16: for a message delivered as an event stream, queryStream returns the
\* text, the token counts and the stop condition that query returns for the
\* same message delivered as a JSON body.
C16_StreamEqualsQuery ==
  \A b \in Encodable : StreamedBody(b) => result = <<QueryResult(b)>>

\* the lines of w that the server ended with a newline, each as its pieces
RECURSIVE EndedLines(_, _)
EndedLines(w, cur) ==
  IF w = <<>> THEN <<>>
  ELSE IF Head(w) = NL THEN <<cur>> \o EndedLines(Tail(w), <<>>)
  ELSE EndedLines(Tail(w), Append(cur, Head(w)))

\* what the stream has delivered so far
Delivered == SubSeq(stream, 1, Len(stream) - Len(wire))

\* the text increment a line carries: that of a well-formed
\* content_block_delta event with text, none for any other line
Increment(line) ==
  IF line = DeltaLine("0", "a") THEN <<"a">>
  ELSE IF line = DeltaLine("1", "b") THEN <<"b">>
  ELSE <<>>

RECURSIVE Increments(_)
Increments(ls) == IF ls = <<>> THEN <<>> ELSE Increment(Head(ls)) \o Increments(Tail(ls))

RECURSIVE Concat(_)
Concat(ts) == IF ts = <<>> THEN "" ELSE Head(ts) \o Concat(Tail(ts))

Has(ls, line) == \E i \in 1..Len(ls) : ls[i] = line

\* a line that is skipped: no data line, a payload that does not parse, [DONE]
Skipped(line) == line \in {PingLine, TruncatedLine, DoneLine}

\* C17: whatever lines the stream carries and however it is cut into
\* chunks, the increments yielded so far are exactly the texts of the
\* well-formed content_block_delta lines delivered so far, in stream order,
\* and the usage and stop condition are those of the well-formed
\* message_start and message_delta lines delivered: a line that is no data
\* line, a payload that is not JSON and [DONE] change nothing and stop nothing.
C17_SkipsMalformedLines ==
  (op = "stream" /\ response # <<>> /\ response[1].body = "event-stream") =>
    LET ls == EndedLines(Delivered, <<>>) IN
      /\ yielded = Increments(ls)
      /\ streamContent = Concat(yielded)
      /\ inputTokens = IF Has(ls, StartLine) THEN 3 ELSE 0
      /\ outputTokens = IF Has(ls, MessageDeltaLine) THEN 2 ELSE 0
      /\ stopReason = IF Has(ls, MessageDeltaLine) THEN "end_turn" ELSE ""
      /\ cpc = "returned" =>
           /\ wire = <<>>
           /\ result = <<[content |-> Concat(Increments(ls)),
                         inputTokens |-> inputTokens,
                         outputTokens |-> outputTokens,
                         stopReason |-> stopReason]>>

\* a payload that does not parse stands between two text events, and both
\* texts were yielded
C17_Witness ==
  /\ op = "stream"
  /\ cpc = "returned"
  /\ stream = DeltaLine("0", "a") \o <<NL>> \o TruncatedLine \o <<NL>>
              \o DeltaLine("1", "b") \o <<NL>>
  /\ yielded = <<"a", "b">>
  /\ result[1].content = "ab"

C18_FailedStartYieldsNothing ==
  (op = "stream" /\ response # <<>> /\ ~response[1].ok) =>
    /\ cpc = "raised"
    /\ cerror = "Inference failed: " \o response[1].status \o " " \o response[1].body
    /\ yielded = <<>>
    /\ result = <<>>

\* C18: a streaming call whose initial response is not ok raises the
\* inference failure with nothing yielded; a rejected read raises to the
\* consumer with no terminal value, and once the call has raised nothing more
\* is yielded or returned by it.
C18_StreamFailures ==
  /\ []C18_FailedStartYieldsNothing
  /\ [][ReadFails =>
          /\ cpc' = "raised"
          /\ cerror' = "terminated"
          /\ result' = <<>>
          /\ yielded' = yielded]_vars
  /\ [][(op = "stream" /\ cpc = "raised" /\ ops' = ops) =>
          UNCHANGED <<cpc, cerror, result, yielded>>]_vars

\* the read fails after one increment was yielded and before the rest of
\* the stream was delivered
C18_Witness ==
  /\ op = "stream"
  /\ cpc = "raised"
  /\ raisedBy = "read"
  /\ yielded = <<"a">>
  /\ Has(EndedLines(wire, <<>>), DeltaLine("1", "b"))
  /\ result = <<>>

\* t occurs in s
Contains(s, t) == \E i \in 1..(Len(s) - Len(t) + 1) : SubSeq(s, i, i + Len(t) - 1) = t

\* id is one of the items of the comma-joined list v
ListsItem(v, id) == Contains("," \o v \o ",", "," \o id \o ",")

SentBody(payload) == \E i \in 1..Len(net) : net[i].url = MessagesUrl /\ net[i].body = payload

\* C19: every request sent to /v1/messages, by query, queryStream or the
\* quota probe, in any mode, has an Authorization header holding the bearer
\* token and an anthropic-beta header whose comma-joined list has the item
\* oauth-2025-04-20.
C19_OauthOnEveryInferenceRequest ==
  \A i \in 1..Len(net) :
    net[i].url = MessagesUrl =>
      /\ {"Authorization", "anthropic-beta"} \subseteq DOMAIN net[i].headers
      /\ net[i].headers["Authorization"] = "Bearer " \o cfg.oauthToken
      /\ ListsItem(net[i].headers["anthropic-beta"], "oauth-2025-04-20")

\* one client has sent a quota probe, a query request and a streaming request
C19_Witness ==
  /\ SentBody("quota")
  /\ SentBody("messages")
  /\ SentBody("messages,stream")
  /\ \E i \in 1..Len(net) : net[i].headers["Accept"] = "text/event-stream"

\* ======================================================================
\* The traffic recorder (src/claude-direct/testing/test-sdk-tool-loop.ts,
\* enableTrafficLogging and its companions).  Callers make calls through
\* globalThis.fetch, which is the native fetch or the hook installed over
\* it; a call stays in inflight until the native fetch settles it, so calls
\* overlap and settle in any order.  The hook's console output is not kept.
\* ======================================================================

\* ---------------------------------------------------------------- bounds
\* calls made through globalThis.fetch
MaxFetches == 2

\* ------------------------------------------------------------------ data
Urls == {MessagesUrl, DATADOG_ENDPOINT}

\* the init argument of a call: <<>> is none
Inits ==
  { <<>>,
    <<[method |-> "POST", headers |-> ("accept" :> "application/json"),
       body |-> "{\"a\":1}"]>> }

\* a RegExp whose source is a plain word, without flags or with the g flag
Patterns == [source : {"anthropic"}, global : BOOLEAN]

\* the options of enableTrafficLogging; urlFilter <<>> is none, <<p>> the
\* RegExp p, created for the call
EnableOptions ==
  {[verbose |-> TRUE, urlFilter |-> <<>>]} \cup
  {[verbose |-> FALSE, urlFilter |-> <<p>>] : p \in Patterns}

\* the function enableTrafficLogging installs, closed over its options
Hook(o) == [kind |-> "hook", options |-> o]

\* where t occurs in s at or after the 0-based index from
MatchesFrom(s, t, from) ==
  {i \in from..(Len(s) - Len(t)) : SubSeq(s, i + 1, i + Len(t)) = t}

\* RegExp.prototype.test: a RegExp with the g flag searches from its
\* lastIndex li, one without searches the whole string
Test(p, li, url) ==
  IF p.global THEN MatchesFrom(url, p.source, li) # {} ELSE Contains(url, p.source)

\* the RegExp's lastIndex after test: with the g flag the end of the match
\* found, or 0 when none was
LastIndexAfter(p, li, url) ==
  IF ~p.global THEN li
  ELSE IF MatchesFrom(url, p.source, li) = {} THEN 0
  ELSE (CHOOSE i \in MatchesFrom(url, p.source, li) :
          \A j \in MatchesFrom(url, p.source, li) : i <= j) + Len(p.source)

\* JSON.parse(init.body), or the body itself when it does not parse
ParseBody(text) == IF text = "{\"a\":1}" THEN [a |-> 1] ELSE text

\* res.status of the native fetch's response, and the message of its rejection
Statuses == {"200", "500"}

RejectMessages == {"fetch failed"}

ResponseHeaders == ("content-type" :> "application/json")

\* the entry the hook creates when a call passes the filter
NewEntry(u, init) ==
  [timestamp |-> now,
   method |-> IF init = <<>> THEN "GET" ELSE init[1].method,
   url |-> u,
   requestHeaders |-> IF init = <<>> THEN <<>> ELSE init[1].headers,
   requestBody |-> IF init = <<>> THEN <<>> ELSE <<ParseBody(init[1].body)>>,
   durationMs |-> 0,
   status |-> <<>>,
   responseHeaders |-> <<>>,
   error |-> <<>>]

\* how a call made now is handled: by the native fetch itself, by the hook
\* passing it on unrecorded, or by the hook recording it
Route(u) ==
  IF globalFetch = NativeFetch THEN "native"
  ELSE IF /\ globalFetch.options.urlFilter # <<>>
          /\ ~Test(globalFetch.options.urlFilter[1], lastIndex, u)
  THEN "passthrough"
  ELSE "recorded"

\* --------------------------------------------------------------- actions
\* variant: enabling again installs a second hook over the first
Enable_Again(o) ==
  /\ originalFetch' = <<globalFetch>>
  /\ trafficLog' = <<>>
  /\ entryCalls' = <<>>
  /\ globalFetch' = Hook(o)
  /\ lastIndex' = 0
  /\ UNCHANGED <<loopVars, clientVars, cmpVars, extVars, fetches, inflight, returned, recHistory>>

\* enableTrafficLogging(o)
Enable(o) ==
  /\ IF originalFetch # <<>>
     THEN UNCHANGED <<originalFetch, trafficLog, entryCalls, globalFetch, lastIndex>>
     ELSE /\ originalFetch' = <<globalFetch>>
          /\ trafficLog' = <<>>
          /\ entryCalls' = <<>>
          /\ globalFetch' = Hook(o)
          /\ lastIndex' = 0
  /\ UNCHANGED <<loopVars, clientVars, cmpVars, extVars, fetches, inflight, returned, recHistory>>

\* variant: disabling forgets the kept fetch without putting it back
Disable_KeepsHook ==
  /\ originalFetch' = <<>>
  /\ UNCHANGED <<loopVars, clientVars, cmpVars, extVars, globalFetch, trafficLog, entryCalls, fetches,
                 inflight, lastIndex, returned, recHistory>>

\* variant: disabling also empties the log
Disable_Resets ==
  /\ IF originalFetch # <<>>
     THEN /\ globalFetch' = originalFetch[1]
          /\ originalFetch' = <<>>
     ELSE UNCHANGED <<globalFetch, originalFetch>>
  /\ trafficLog' = <<>>
  /\ entryCalls' = <<>>
  /\ UNCHANGED <<loopVars, clientVars, cmpVars, extVars, fetches, inflight, lastIndex, returned, recHistory>>

\* disableTrafficLogging()
Disable ==
  /\ IF originalFetch # <<>>
     THEN /\ globalFetch' = originalFetch[1]
          /\ originalFetch' = <<>>
     ELSE UNCHANGED <<globalFetch, originalFetch>>
  /\ UNCHANGED <<loopVars, clientVars, cmpVars, extVars, trafficLog, entryCalls, fetches, inflight,
                 lastIndex, returned, recHistory>>

\* clearTrafficLog()
Clear ==
  /\ trafficLog' = <<>>
  /\ entryCalls' = <<>>
  /\ UNCHANGED <<loopVars, clientVars, cmpVars, extVars, originalFetch, globalFetch, fetches,
                 inflight, lastIndex, returned, recHistory>>

\* a caller calls globalThis.fetch(u, init); the code runs up to the await of
\* the native fetch
IssueFetch(u, init) ==
  /\ fetches < MaxFetches
  /\ fetches' = fetches + 1
  /\ underlying' = Append(underlying, fetches + 1)
  /\ issued' = Append(issued, [url |-> u, fetch |-> globalFetch])
  /\ inflight' = inflight \cup
       {[id |-> fetches + 1, via |-> Route(u), start |-> now,
         entry |-> IF Route(u) = "recorded" THEN <<NewEntry(u, init)>> ELSE <<>>]}
  /\ lastIndex' =
       IF globalFetch # NativeFetch /\ globalFetch.options.urlFilter # <<>>
       THEN LastIndexAfter(globalFetch.options.urlFilter[1], lastIndex, u)
       ELSE lastIndex
  /\ UNCHANGED <<loopVars, clientVars, cmpVars, extVars, trafficLog, entryCalls, originalFetch,
                 globalFetch, returned, settled, observed>>

\* variant: the entry is pushed only if logging is still enabled at completion
FetchResolves_WhileEnabled(c, st) ==
  /\ c \in inflight
  /\ inflight' = inflight \ {c}
  /\ settled' = settled \cup {[id |-> c.id, kind |-> "response", ref |-> c.id, detail |-> st]}
  /\ trafficLog' =
       IF c.via = "recorded" /\ originalFetch # <<>>
       THEN Append(trafficLog, [c.entry[1] EXCEPT !.durationMs = now - c.start,
                                                  !.status = <<st>>,
                                                  !.responseHeaders = <<ResponseHeaders>>])
       ELSE trafficLog
  /\ entryCalls' = IF c.via = "recorded" /\ originalFetch # <<>>
                     THEN Append(entryCalls, c.id) ELSE entryCalls
  /\ observed' = observed \cup {[id |-> c.id, via |-> c.via, kind |-> "response", ref |-> c.id]}
  /\ UNCHANGED <<loopVars, clientVars, cmpVars, extVars, originalFetch, globalFetch, fetches, lastIndex,
                 returned, underlying, issued>>

\* the native fetch resolves call c with a response of status st
FetchResolves(c, st) ==
  /\ c \in inflight
  /\ inflight' = inflight \ {c}
  /\ settled' = settled \cup {[id |-> c.id, kind |-> "response", ref |-> c.id, detail |-> st]}
  /\ trafficLog' =
       IF c.via = "recorded"
       THEN Append(trafficLog, [c.entry[1] EXCEPT !.durationMs = now - c.start,
                                                  !.status = <<st>>,
                                                  !.responseHeaders = <<ResponseHeaders>>])
       ELSE trafficLog
  /\ entryCalls' = IF c.via = "recorded" THEN Append(entryCalls, c.id) ELSE entryCalls
  /\ observed' = observed \cup {[id |-> c.id, via |-> c.via, kind |-> "response", ref |-> c.id]}
  /\ UNCHANGED <<loopVars, clientVars, cmpVars, extVars, originalFetch, globalFetch, fetches, lastIndex,
                 returned, underlying, issued>>

\* variant: the hook swallows the failure and resolves with nothing
FetchRejects_Swallows(c, m) ==
  /\ c \in inflight
  /\ inflight' = inflight \ {c}
  /\ settled' = settled \cup {[id |-> c.id, kind |-> "error", ref |-> c.id, detail |-> m]}
  /\ trafficLog' =
       IF c.via = "recorded"
       THEN Append(trafficLog, [c.entry[1] EXCEPT !.durationMs = now - c.start,
                                                  !.error = <<m>>])
       ELSE trafficLog
  /\ observed' = observed \cup
       {IF c.via = "recorded"
        THEN [id |-> c.id, via |-> c.via, kind |-> "response", ref |-> 0]
        ELSE [id |-> c.id, via |-> c.via, kind |-> "error", ref |-> c.id]}
  /\ entryCalls' = IF c.via = "recorded" THEN Append(entryCalls, c.id) ELSE entryCalls
  /\ UNCHANGED <<loopVars, clientVars, cmpVars, extVars, originalFetch, globalFetch, fetches, lastIndex,
                 returned, underlying, issued>>

\* variant: the hook rethrows without recording the failed call
FetchRejects_NoEntry(c, m) ==
  /\ c \in inflight
  /\ inflight' = inflight \ {c}
  /\ settled' = settled \cup {[id |-> c.id, kind |-> "error", ref |-> c.id, detail |-> m]}
  /\ observed' = observed \cup {[id |-> c.id, via |-> c.via, kind |-> "error", ref |-> c.id]}
  /\ UNCHANGED <<loopVars, clientVars, cmpVars, extVars, trafficLog, entryCalls, originalFetch, globalFetch,
                 fetches, lastIndex, returned, underlying, issued>>

\* the native fetch rejects call c with an Error whose message is m
FetchRejects(c, m) ==
  /\ c \in inflight
  /\ inflight' = inflight \ {c}
  /\ settled' = settled \cup {[id |-> c.id, kind |-> "error", ref |-> c.id, detail |-> m]}
  /\ trafficLog' =
       IF c.via = "recorded"
       THEN Append(trafficLog, [c.entry[1] EXCEPT !.durationMs = now - c.start,
                                                  !.error = <<m>>])
       ELSE trafficLog
  /\ entryCalls' = IF c.via = "recorded" THEN Append(entryCalls, c.id) ELSE entryCalls
  /\ observed' = observed \cup {[id |-> c.id, via |-> c.via, kind |-> "error", ref |-> c.id]}
  /\ UNCHANGED <<loopVars, clientVars, cmpVars, extVars, originalFetch, globalFetch, fetches, lastIndex,
                 returned, underlying, issued>>

\* -------------------------------------------------------- specification
RecorderInit ==
  /\ LoopEntered({<<Message("user", <<TextBlock("q")>>)>>}, {0}, {FALSE})
  /\ ClientConstructed({DefaultRawConfig})
  /\ RecorderLoaded
  /\ ExtrasIdle

RecorderNext ==
  \/ \E o \in EnableOptions : Enable(o) /\ UNCHANGED lastCall
  \/ Disable /\ UNCHANGED lastCall
  \/ Clear /\ UNCHANGED lastCall
  \/ \E u \in Urls, init \in Inits : IssueFetch(u, init) /\ UNCHANGED lastCall
  \/ \E c \in inflight, st \in Statuses : FetchResolves(c, st) /\ UNCHANGED lastCall
  \/ \E c \in inflight, m \in RejectMessages : FetchRejects(c, m) /\ UNCHANGED lastCall

RecorderSpec == RecorderInit /\ [][RecorderNext]_vars

\* ----------------------------------------------- recorder claim helpers
\* how often call id was handed to the native fetch
UnderlyingCalls(id) == Cardinality({i \in 1..Len(underlying) : underlying[i] = id})

\* C20: a call that went through the hook, recorded or passed on by the
\* filter, was handed to the native fetch exactly once, and its caller got
\* the very response object or the very error the native fetch settled with,
\* at the moment it settled.
C20_HookIsTransparent ==
  /\ \A o \in observed :
       o.via # "native" =>
         \E s \in settled : s.id = o.id /\ s.kind = o.kind /\ s.ref = o.ref
  /\ \A s \in settled : Cardinality({o \in observed : o.id = s.id}) = 1
  /\ \A id \in 1..fetches : UnderlyingCalls(id) = 1
  /\ \A c \in inflight : \A o \in observed : o.id # c.id

\* a call the filter passed on got its response, and a recorded call got its error
C20_Witness ==
  /\ \E o \in observed : o.via = "passthrough" /\ o.kind = "response" /\ o.ref = o.id
  /\ \E o \in observed : o.via = "recorded" /\ o.kind = "error" /\ o.ref = o.id
  /\ Len(trafficLog) = 1
  /\ trafficLog[1].error = <<"fetch failed">>

\* ---------------------------------------------------------------- C21
\* The recorder with the clock running: one hook without a filter, calls to
\* one url.  now stands for both Date.now() and performance.now().
TimedNext ==
  \/ Enable([verbose |-> TRUE, urlFilter |-> <<>>]) /\ UNCHANGED lastCall
  \/ \E init \in Inits : IssueFetch(MessagesUrl, init) /\ UNCHANGED lastCall
  \/ \E c \in inflight, st \in Statuses : FetchResolves(c, st) /\ UNCHANGED lastCall
  \/ \E c \in inflight, m \in RejectMessages : FetchRejects(c, m) /\ UNCHANGED lastCall
  \/ Tick

TimedSpec == RecorderInit /\ [][TimedNext]_vars

\* C21: when the native fetch rejects a recorded call, the step that hands
\* the error to the caller also appends exactly one entry for that call to the
\* log: it carries the error's message and the time elapsed since the call was
\* made, and no status or response headers.
C21_FailureIsRecorded ==
  [][\A c \in inflight, m \in RejectMessages :
       (FetchRejects(c, m) /\ c.via = "recorded") =>
         /\ Len(trafficLog') = Len(trafficLog) + 1
         /\ SubSeq(trafficLog', 1, Len(trafficLog)) = trafficLog
         /\ Last(trafficLog').error = <<m>>
         /\ Last(trafficLog').durationMs = now - c.start
         /\ Last(trafficLog').status = <<>>
         /\ Last(trafficLog').responseHeaders = <<>>
         /\ Last(trafficLog').url = issued[c.id].url
         /\ Last(entryCalls') = c.id
         /\ \E o \in observed' \ observed :
              o.id = c.id /\ o.kind = "error" /\ o.ref = c.id]_vars

\* a recorded call failed after some time had passed
C21_Witness ==
  \E i \in 1..Len(trafficLog), o \in observed :
    /\ trafficLog[i].error = <<"fetch failed">>
    /\ trafficLog[i].durationMs > 0
    /\ trafficLog[i].status = <<>>
    /\ o.id = entryCalls[i] /\ o.kind = "error"

\* ---------------------------------------------------------------- C22
\* The recorder's interface with the latest call remembered in lastCall;
\* calls carry no init and resolve with status 200 or are rejected.
InterfaceNext ==
  \/ \E o \in EnableOptions :
       /\ Enable(o)
       /\ lastCall' = IF originalFetch # <<>> THEN "enable while enabled" ELSE "enable"
  \/ /\ Disable
     /\ lastCall' = IF originalFetch # <<>> THEN "disable" ELSE "disable while disabled"
  \/ Clear /\ lastCall' = "clear"
  \/ \E u \in Urls : IssueFetch(u, <<>>) /\ UNCHANGED lastCall
  \/ \E c \in inflight : FetchResolves(c, "200") /\ UNCHANGED lastCall
  \/ \E c \in inflight, m \in RejectMessages : FetchRejects(c, m) /\ UNCHANGED lastCall

InterfaceSpec == RecorderInit /\ [][InterfaceNext]_vars

\* logging is enabled: the module holds the fetch it replaced
Enabled == originalFetch # <<>>

\* C22: enableTrafficLogging called while logging is enabled changes neither
\* the installed hook (so neither the filter nor the verbosity it was given),
\* nor the fetch kept for restoring, nor the log; the fetch kept is always the
\* native one, and one disableTrafficLogging puts it back.
C22_EnableIsIdempotent ==
  /\ [](Enabled => originalFetch[1] = NativeFetch /\ globalFetch # NativeFetch)
  /\ [][\A o \in EnableOptions :
          (Enabled /\ Enable(o)) =>
            UNCHANGED <<globalFetch, originalFetch, trafficLog, entryCalls, lastIndex>>]_vars
  /\ [][Disable => globalFetch' = NativeFetch /\ originalFetch' = <<>>]_vars

\* enable was called on a recorder already enabled with a filter and holding an entry
C22_Witness ==
  /\ lastCall = "enable while enabled"
  /\ globalFetch = Hook([verbose |-> FALSE, urlFilter |-> <<[source |-> "anthropic", global |-> FALSE]>>])
  /\ Len(trafficLog) = 1

\* ---------------------------------------------------------------- C23
\* C23: disableTrafficLogging on an enabled recorder makes globalThis.fetch
\* the fetch that was installed before enabling and keeps the log; on a
\* recorder that is not enabled it changes neither; while the recorder is not
\* enabled the native fetch is installed, and no call made then ever gets an
\* entry, at issue or at completion.
C23_DisableRestores ==
  /\ [][(Enabled /\ Disable) =>
          /\ globalFetch' = NativeFetch /\ globalFetch' = originalFetch[1]
          /\ UNCHANGED <<trafficLog, entryCalls>>]_vars
  /\ [][(~Enabled /\ Disable) =>
          UNCHANGED <<globalFetch, originalFetch, trafficLog, entryCalls>>]_vars
  /\ [](~Enabled => globalFetch = NativeFetch)
  /\ [](\A c \in inflight : issued[c.id].fetch = NativeFetch => c.entry = <<>>)
  /\ [](\A i \in 1..Len(entryCalls) : issued[entryCalls[i]].fetch # NativeFetch)

\* after enable and disable, with an entry recorded in between, a later call
\* went to the native fetch and completed
C23_Witness ==
  /\ lastCall = "disable"
  /\ Len(trafficLog) = 1
  /\ \E o \in observed :
       o.id > entryCalls[1] /\ o.via = "native" /\ issued[o.id].fetch = NativeFetch

\* ---------------------------------------------------------------- C24
\* the filter of the hook call id went through: <<>> when it went to the
\* native fetch or the hook had none
FilterOf(id) ==
  IF issued[id].fetch = NativeFetch THEN <<>> ELSE issued[id].fetch.options.urlFilter

\* the url of call id matches RegExp p: p's word occurs in it
UrlMatches(id, p) == Contains(issued[id].url, p.source)

\* C24: of the calls made through a hook with a filter, exactly those whose
\* url matches the filter get an entry: a call that does not match is handed
\* to the native fetch and leaves the log alone when it is made and when it
\* completes, and a call that matches appends exactly one entry when it
\* completes.
C24_FilterSelects ==
  /\ [](\A c \in inflight :
          FilterOf(c.id) # <<>> =>
            (c.via = "recorded" <=> UrlMatches(c.id, FilterOf(c.id)[1])))
  /\ [][\A c \in inflight :
          (c \notin inflight' /\ FilterOf(c.id) # <<>>) =>
            IF UrlMatches(c.id, FilterOf(c.id)[1])
            THEN entryCalls' = Append(entryCalls, c.id)
            ELSE UNCHANGED <<trafficLog, entryCalls>>]_vars
  /\ [][\A u \in Urls : IssueFetch(u, <<>>) => UNCHANGED <<trafficLog, entryCalls>>]_vars

\* ---------------------------------------------------------------- C25
\* C25: the entries of the log are in the order in which their calls were
\* made (calls are numbered as they are made).
C25_LogInIssueOrder ==
  \A i, j \in 1..Len(entryCalls) : i < j => entryCalls[i] < entryCalls[j]

\* ---------------------------------------------------------------- C26
\* a step of the recorder's interface, not of a call in flight
InterfaceStep == fetches' = fetches /\ inflight' = inflight

\* C26 as stated: a step after which the log no longer begins with the
\* entries it held is a clearTrafficLog.
C26_OnlyClearDiscards ==
  [][~IsPrefix(trafficLog, trafficLog') => (InterfaceStep /\ lastCall' = "clear")]_vars

\* C26: a step after which the log no longer begins with the entries it held
\* is a clearTrafficLog or an enableTrafficLogging on a recorder that was not
\* enabled, which starts an empty log; disableTrafficLogging, and
\* enableTrafficLogging on an enabled recorder, leave the log as it is.
C26_ClearOrEnableDiscards ==
  /\ [][~IsPrefix(trafficLog, trafficLog') =>
          (InterfaceStep /\ lastCall' \in {"clear", "enable"})]_vars
  /\ [][\A o \in EnableOptions : (~Enabled /\ Enable(o)) => trafficLog' = <<>>]_vars
  /\ [][\A o \in EnableOptions : (Enabled /\ Enable(o)) => UNCHANGED trafficLog]_vars
  /\ [][Disable => UNCHANGED trafficLog]_vars

\* the log is empty right after an enable although a recorded call had
\* completed before, under an earlier enable
C26_Witness ==
  /\ lastCall = "enable"
  /\ trafficLog = <<>>
  /\ \E o \in observed : o.via = "recorded"

\* ---------------------------------------------------------------- C27
\* a hook is installed, and it has no filter or url u matches its filter
HookAdmits(u) ==
  /\ globalFetch # NativeFetch
  /\ globalFetch.options.urlFilter # <<>> =>
       Contains(u, globalFetch.options.urlFilter[1].source)

\* C27: clearTrafficLog leaves the log empty and the hook and the kept fetch
\* as they are, and a call made after it through the hook, its url matching
\* the hook's filter, is recorded: it is given an entry, and the entry is
\* appended when the call completes.
C27_ClearKeepsRecording ==
  /\ [][Clear => trafficLog' = <<>> /\ UNCHANGED <<globalFetch, originalFetch>>]_vars
  /\ [][\A u \in Urls :
          (lastCall = "clear" /\ HookAdmits(u) /\ IssueFetch(u, <<>>)) =>
            \A c \in inflight' \ inflight : c.via = "recorded"]_vars
  /\ [][\A c \in inflight :
          (c \notin inflight' /\ c.via = "recorded") =>
            entryCalls' = Append(entryCalls, c.id)]_vars

\* ---------------------------------------------------------------- C28
\* the index of the first character of s that is in chars, Len(s) + 1 when none is
FirstOf(s, chars) ==
  CHOOSE i \in 1..(Len(s) + 1) :
    /\ i <= Len(s) => SubSeq(s, i, i) \in chars
    /\ \A j \in 1..(i - 1) : SubSeq(s, j, j) \notin chars

\* new URL(url).pathname for an https url with a path: from the first slash
\* after the host up to the query or fragment
Pathname(url) ==
  LET rest == SubSeq(url, Len("https://") + 1, Len(url))
  IN SubSeq(rest, FirstOf(rest, {"/"}), FirstOf(rest, {"?", "#"}) - 1)

\* JSON.stringify of a request body the model records
Stringify(b) == CASE b = [a |-> 1] -> "{\"a\":1}"

\* Object.entries(h).map(([name, value]) => ({ name, value }))
HeaderList(h) == {[name |-> k, value |-> h[k]] : k \in DOMAIN h}

\* getTrafficSummary() of the log as it is: per entry the method, the path,
\* the status or "ERR", and the duration
getTrafficSummary ==
  [i \in 1..Len(trafficLog) |->
     LET e == trafficLog[i]
     IN <<e.method, Pathname(e.url), IF e.status # <<>> THEN e.status[1] ELSE "ERR",
          e.durationMs>>]

\* exportAsHAR() of the log as it is: log.entries
exportAsHAR ==
  [i \in 1..Len(trafficLog) |->
     LET e == trafficLog[i]
     IN [startedDateTime |-> e.timestamp,
         time |-> e.durationMs,
         request |-> [method |-> e.method, url |-> e.url,
                      headers |-> HeaderList(e.requestHeaders),
                      postData |-> IF e.requestBody # <<>>
                                   THEN <<[mimeType |-> "application/json",
                                           text |-> Stringify(e.requestBody[1])]>>
                                   ELSE <<>>],
         response |-> [status |-> IF e.status # <<>> THEN e.status[1] ELSE "0",
                       statusText |-> IF e.status # <<>> THEN "OK" ELSE "ERROR",
                       headers |-> IF e.responseHeaders # <<>>
                                   THEN HeaderList(e.responseHeaders[1])
                                   ELSE {}]]]

\* getTrafficLog(): a new array holding the log's entry objects; the caller
\* keeps it in returned, each element with the call whose entry object it is
GetTrafficLog ==
  /\ returned' = [i \in 1..Len(trafficLog) |-> [call |-> entryCalls[i], entry |-> trafficLog[i]]]
  /\ UNCHANGED <<loopVars, clientVars, cmpVars, extVars, trafficLog, entryCalls, originalFetch, globalFetch,
                 fetches, inflight, lastIndex, recHistory, lastCall>>

\* the caller removes the first element of the array it was returned: returned.shift()
ShiftReturned ==
  /\ returned # <<>>
  /\ returned' = Tail(returned)
  /\ UNCHANGED <<loopVars, clientVars, cmpVars, extVars, trafficLog, entryCalls, originalFetch, globalFetch,
                 fetches, inflight, lastIndex, recHistory, lastCall>>

\* the caller assigns to a property of element i of the array it was
\* returned: returned[i].method = "EDITED".  The element is the entry object
\* itself, so wherever the log still holds that object it shows the new value.
EditReturned(i) ==
  /\ i \in 1..Len(returned)
  /\ returned[i].entry.method # "EDITED"
  /\ returned' = [returned EXCEPT ![i].entry.method = "EDITED"]
  /\ trafficLog' =
       [j \in 1..Len(trafficLog) |->
          IF entryCalls[j] = returned[i].call
          THEN [trafficLog[j] EXCEPT !.method = "EDITED"]
          ELSE trafficLog[j]]
  /\ UNCHANGED <<loopVars, clientVars, cmpVars, extVars, entryCalls, originalFetch, globalFetch,
                 fetches, inflight, lastIndex, recHistory, lastCall>>

\* the recorder without a filter, with a caller that reads the log and
\* changes what it was returned
CopyNext ==
  \/ Enable([verbose |-> TRUE, urlFilter |-> <<>>]) /\ UNCHANGED lastCall
  \/ Clear /\ UNCHANGED lastCall
  \/ \E init \in Inits : IssueFetch(MessagesUrl, init) /\ UNCHANGED lastCall
  \/ \E c \in inflight, st \in Statuses : FetchResolves(c, st) /\ UNCHANGED lastCall
  \/ \E c \in inflight, m \in RejectMessages : FetchRejects(c, m) /\ UNCHANGED lastCall
  \/ GetTrafficLog
  \/ ShiftReturned
  \/ \E i \in 1..Len(returned) : EditReturned(i)

CopySpec == RecorderInit /\ [][CopyNext]_vars

\* the caller changes the value getTrafficLog returned
CallerModifies == ShiftReturned \/ \E i \in 1..Len(returned) : EditReturned(i)

\* C28: a change the caller makes to the value getTrafficLog returned, to the
\* array or to an element of it, changes neither the log nor what
\* getTrafficSummary and exportAsHAR report, and recording an entry does not
\* change a value returned before.
C28_DefensiveCopy ==
  /\ [][CallerModifies =>
          /\ trafficLog' = trafficLog
          /\ getTrafficSummary' = getTrafficSummary
          /\ exportAsHAR' = exportAsHAR]_vars
  /\ [][trafficLog' # trafficLog /\ ~CallerModifies => UNCHANGED returned]_vars

\* ---------------------------------------------------------------- C29
\* A scenario replayed on one client: query is called, and called again once
\* it has returned, and the upstream gives every request of a kind the same
\* answer both times.
ReplayBody ==
  [content |-> <<TextBlock("a")>>, stop_reason |-> "end_turn",
   usage |-> CHOOSE u \in Usages : TRUE]

ReplayNext ==
  \/ Call("query")
  \/ FlagsOk(<<{"tengu_a"}>>)
  \/ QuotaResponds
  \/ QueryResponds(ReplayBody)
  \/ \E p \in pending : TelemetrySettles(p, "ok")

ReplaySpec == ClientInit /\ [][ReplayNext]_vars

\* what a hook without a filter, its log cleared before run n, has recorded
\* of run n once every request of the run has completed: an entry per
\* request; its method and path, here in the order the requests were made
ReplayLog(n) ==
  [i \in 1..Len(RequestsOf(n)) |->
     <<RequestsOf(n)[i].method, Pathname(RequestsOf(n)[i].url)>>]

\* both runs are over and none of their requests is in flight
Replayed == ops = 2 /\ cpc = "returned" /\ pending = {}

\* C29: once a scenario has been run twice on a client, the two runs have
\* left logs of the same length and the same sequence of method and path.
C29_ReplayIdempotent == Replayed => ReplayLog(1) = ReplayLog(2)

\* ---------------------------------------------------------------- C30
\* compareTrafficLogs (lines 342-376), applied to logs of up to MaxLogLen
\* entries.  A difference is kept as the parts its text is built from.

\* entries of a log given to compareTrafficLogs
MaxLogLen == 2

\* k.toLowerCase(), for the header names of the model
ToLower(k) == IF k = "Date" THEN "date" ELSE k

\* the header names of the model, in the order a request sets them
HeaderNames == <<"accept", "date", "Date">>

\* ["date", "x-request-id"], the ignoreHeaders used when none are given
DefaultIgnoreHeaders == {"date", "x-request-id"}

\* h[k] of a headers object: <<>> is undefined
HeaderValue(h, k) == IF k \in DOMAIN h THEN <<h[k]>> ELSE <<>>

\* ${v} in a template literal
Interpolate(v) == IF v = <<>> THEN "undefined" ELSE v[1]

\* the method, url and request headers of an entry; its other fields are not read
CompareEntry(m, u, h) == [method |-> m, url |-> u, requestHeaders |-> h]

\* one entry, and the entries that differ from it in one respect: the method,
\* the path, the query only, the value of a header, the value of an ignored
\* header, the spelling of an ignored header's name, a header left out
CompareEntries ==
  { CompareEntry("POST", MessagesUrl, ("accept" :> "1") @@ ("date" :> "mon")),
    CompareEntry("GET", MessagesUrl, ("accept" :> "1") @@ ("date" :> "mon")),
    CompareEntry("POST", EvalUrl, ("accept" :> "1") @@ ("date" :> "mon")),
    CompareEntry("POST", API_BASE \o "/v1/messages", ("accept" :> "1") @@ ("date" :> "mon")),
    CompareEntry("POST", MessagesUrl, ("accept" :> "2") @@ ("date" :> "mon")),
    CompareEntry("POST", MessagesUrl, ("accept" :> "1") @@ ("date" :> "tue")),
    CompareEntry("POST", MessagesUrl, ("accept" :> "1") @@ ("Date" :> "mon")),
    CompareEntry("POST", MessagesUrl, ("date" :> "mon")) }

RECURSIVE LogsOfLength(_)
LogsOfLength(n) ==
  IF n = 0 THEN {<<>>}
  ELSE {Append(l, e) : l \in LogsOfLength(n - 1), e \in CompareEntries}

CompareLogs == UNION {LogsOfLength(n) : n \in 0..MaxLogLen}

\* the differences pushed at lines 364-372 for the pair at index i (from 0)
HeaderDifferences(i, e1, e2, ignoreHeaders) ==
  LET differing ==
        SelectSeq(HeaderNames,
                  LAMBDA k : /\ k \in DOMAIN e1.requestHeaders
                             /\ ToLower(k) \notin ignoreHeaders
                             /\ <<e1.requestHeaders[k]>> # HeaderValue(e2.requestHeaders, k))
  IN [n \in 1..Len(differing) |->
        [kind |-> "header", index |-> i, name |-> differing[n],
         left |-> e1.requestHeaders[differing[n]],
         right |-> Interpolate(HeaderValue(e2.requestHeaders, differing[n]))]]

\* the differences pushed at lines 360-362 for the pair at index i
RequestDifference(i, e1, e2) ==
  IF e1.method # e2.method \/ Pathname(e1.url) # Pathname(e2.url)
  THEN <<[kind |-> "request", index |-> i, name |-> "",
          left |-> e1.method \o " " \o Pathname(e1.url),
          right |-> e2.method \o " " \o Pathname(e2.url)]>>
  ELSE <<>>

\* the loop at lines 356-373, from index i on
RECURSIVE PairDifferences(_, _, _, _)
PairDifferences(i, l1, l2, ignoreHeaders) ==
  IF i >= Len(l1) \/ i >= Len(l2) THEN <<>>
  ELSE RequestDifference(i, l1[i + 1], l2[i + 1])
       \o HeaderDifferences(i, l1[i + 1], l2[i + 1], ignoreHeaders)
       \o PairDifferences(i + 1, l1, l2, ignoreHeaders)

\* compareTrafficLogs(l1, l2, { ignoreHeaders })
compareTrafficLogs(l1, l2, ignoreHeaders) ==
  LET differences ==
        (IF Len(l1) # Len(l2)
         THEN <<[kind |-> "count", index |-> 0, name |-> "",
                 left |-> ToString(Len(l1)), right |-> ToString(Len(l2))]>>
         ELSE <<>>)
        \o PairDifferences(0, l1, l2, ignoreHeaders)
  IN [matches |-> differences = <<>>, differences |-> differences]

\* compareTrafficLogs(log1, log2) is called
Compare ==
  /\ comparison = <<>>
  /\ comparison' = <<compareTrafficLogs(log1, log2, DefaultIgnoreHeaders)>>
  /\ UNCHANGED <<loopVars, clientVars, extVars, trafficLog, originalFetch, globalFetch,
                 fetches, inflight, lastIndex, entryCalls, returned, recHistory, lastCall,
                 log1, log2>>

CompareInit ==
  /\ LoopEntered({<<Message("user", <<TextBlock("q")>>)>>}, {0}, {FALSE})
  /\ ClientConstructed({DefaultRawConfig})
  /\ RecorderIdle
  /\ ExtrasIdle
  /\ log1 \in CompareLogs
  /\ log2 \in CompareLogs
  /\ comparison = <<>>

CompareNext == Compare

CompareSpec == CompareInit /\ [][CompareNext]_vars

\* a header that is not ignored by default has different values in e1 and
\* e2, a header one of them lacks included
HeaderDiffers(e1, e2) ==
  \E k \in DOMAIN e1.requestHeaders \cup DOMAIN e2.requestHeaders :
    /\ ToLower(k) \notin DefaultIgnoreHeaders
    /\ HeaderValue(e1.requestHeaders, k) # HeaderValue(e2.requestHeaders, k)

\* same count, same method and path at every position, no differing header
SameTraffic(l1, l2) ==
  /\ Len(l1) = Len(l2)
  /\ \A i \in 1..Len(l1) :
       /\ l1[i].method = l2[i].method
       /\ Pathname(l1[i].url) = Pathname(l2[i].url)
       /\ ~HeaderDiffers(l1[i], l2[i])

\* log2 is log1 with the value of header k of entry i changed
OneHeaderChanged(i, k) ==
  /\ i \in 1..Len(log1) /\ Len(log2) = Len(log1)
  /\ k \in DOMAIN log1[i].requestHeaders
  /\ k \in DOMAIN log2[i].requestHeaders
  /\ log2[i].requestHeaders[k] # log1[i].requestHeaders[k]
  /\ log2 = [log1 EXCEPT ![i].requestHeaders[k] = log2[i].requestHeaders[k]]

\* C30: the object compareTrafficLogs returns has matches = true exactly when
\* its difference list is empty, and that exactly when the logs have the same
\* count, the same method and path at every position and no header, other than
\* date and x-request-id, whose value differs between them at any position;
\* a log matches itself, and one changed value of such a header gives exactly
\* one difference, naming the header and the position.
C30_CompareExact ==
  comparison # <<>> =>
    /\ comparison[1].matches <=> comparison[1].differences = <<>>
    /\ comparison[1].matches <=> SameTraffic(log1, log2)
    /\ log1 = log2 => comparison[1].matches
    /\ \A i \in 1..Len(log1), k \in {"accept"} :
         OneHeaderChanged(i, k) =>
           /\ Len(comparison[1].differences) = 1
           /\ comparison[1].differences[1].kind = "header"
           /\ comparison[1].differences[1].index = i - 1
           /\ comparison[1].differences[1].name = k

\* ======================================================================
\* Further properties of the tool loop (specification Spec)
\* ======================================================================

\* ---------------------------------------------------------------- C33
\* client calls issued and not yet answered; a rejected call stays counted
InFlight == calls - Len(replies)

\* response.content.filter(b => b.type === "tool_use")
ToolUsesOf(r) == SelectSeq(r.content, IsToolUse)

\* C33: at most one client call is in flight, and only while the loop waits
\* for it; a call after the first is issued from the top of the loop with no
\* handler or callback running, the previous reply having asked for tools and
\* the transcript ending with the user entry that holds one result per
\* tool_use block of that reply; a handler is started for block idx only when
\* the blocks before it have their results, so handlers run one at a time in
\* the order of the reply.
C33_OneCallInFlight ==
  /\ [](InFlight \in {0, 1})
  /\ [](InFlight = 1 <=> (pc = "await" \/ error = "client"))
  /\ [][calls' = calls + 1 =>
          /\ pc = "loop" /\ InFlight = 0
          /\ calls > 0 =>
               /\ Last(replies).stop_reason = "tool_use"
               /\ Last(messages).role = "user"
               /\ Len(Last(messages).content) = Len(ToolUsesOf(Last(replies)))
               /\ \A i \in 1..Len(Last(messages).content) :
                    Last(messages).content[i].tool_use_id
                      = ToolUsesOf(Last(replies))[i].id]_vars
  /\ [][pc' = "handler" =>
          /\ pc = "tools"
          /\ Len(toolResults) = idx - 1
          /\ idx' = idx]_vars
  /\ [][Len(toolResults') = Len(toolResults) + 1 =>
          /\ pc \in {"tools", "handler"}
          /\ Last(toolResults').tool_use_id = toolUseBlocks[idx].id
          /\ Len(toolResults') = idx]_vars

\* the second call is in flight after a reply with two tool_use blocks was served
C33_Witness ==
  /\ calls = 2 /\ pc = "await"
  /\ Len(ToolUsesOf(replies[1])) = 2
  /\ Len(toolCalls) = 2
  /\ outcomes[2] = "returned"

\* ---------------------------------------------------------------- C36
\* C36: with an onToolUse callback supplied, the callback is invoked once for
\* each tool_use block the loop serves: the invocations are the entries of
\* toolCalls in order, the newest entry missing exactly while its invocation
\* is pending; an invocation happens after the block's result was recorded,
\* with the block's name and input and the text of that result, and no
\* handler is started or looked up while an invocation is pending; when the
\* loop returns, the invocations equal the returned toolCalls, one per
\* tool_use block of the tool_use replies.  Without a callback nothing is
\* invoked.
C36_CallbackPerSegment ==
  /\ [](~onToolUse => cbLog = <<>>)
  /\ [](onToolUse =>
          /\ IsPrefix(cbLog, toolCalls)
          /\ Len(toolCalls) - Len(cbLog) = (IF pc = "callback" THEN 1 ELSE 0))
  /\ [](onToolUse /\ pc = "done" =>
          /\ cbLog = toolCalls
          /\ Len(cbLog) = Len(RequestedUpTo(Len(replies)))
          /\ \A i \in 1..Len(cbLog) :
               /\ cbLog[i].name = RequestedUpTo(Len(replies))[i].name
               /\ cbLog[i].input = RequestedUpTo(Len(replies))[i].input)
  /\ [][Len(cbLog') = Len(cbLog) + 1 =>
          /\ pc = "callback"
          /\ Len(toolResults) = idx
          /\ Last(cbLog') = [name |-> toolUseBlocks[idx].name,
                             input |-> toolUseBlocks[idx].input,
                             result |-> toolResults[idx].content]]_vars
  /\ [][(onToolUse /\ Len(toolCalls') = Len(toolCalls) + 1) =>
          Len(cbLog) = Len(toolCalls)]_vars

\* a returned run in which the callback saw a successful and a failed tool call
C36_Witness ==
  /\ onToolUse /\ pc = "done"
  /\ Len(cbLog) = 2 /\ cbLog = toolCalls
  /\ outcomes[1] = "returned" /\ outcomes[2] # "returned"

\* ======================================================================
\* Two executeToolLoop executions started from one caller array
\* (src/claude-direct/tool-loop.ts, lines 88-175)
\* ======================================================================

\* the executions, and the arrays in memory: the caller's options.messages
\* and the array each execution may allocate
Executions == {1, 2}

Refs == {"caller", "own1", "own2"}

FreshRef(e) == IF e = 1 THEN "own1" ELSE "own2"

\* replies the client gives an execution
OwnReplies ==
  { r \in Replies :
      /\ r.usage = <<>>
      /\ \/ r.stop_reason = "end_turn" /\ r.content = <<TextBlock("a")>>
         \/ r.stop_reason = "tool_use"
              /\ r.content = <<ToolUseBlock("toolu_1", "calculator")>> }

\* variant: const messages = options.messages, no copy
Enter_Shares(e) ==
  /\ xpc[e] = "idle"
  /\ transcriptOf' = [transcriptOf EXCEPT ![e] = "caller"]
  /\ xpc' = [xpc EXCEPT ![e] = "loop"]
  /\ UNCHANGED <<loopVars, clientVars, trafficLog, originalFetch, globalFetch, fetches,
                 inflight, lastIndex, entryCalls, returned, recHistory, lastCall, cmpVars,
                 benchVars, flagVars, heap, appended, given, xturns>>

\* const messages = JSON.parse(JSON.stringify(options.messages))
Enter(e) ==
  /\ xpc[e] = "idle"
  /\ transcriptOf' = [transcriptOf EXCEPT ![e] = FreshRef(e)]
  /\ heap' = [heap EXCEPT ![FreshRef(e)] = JsonClone(heap["caller"])]
  /\ xpc' = [xpc EXCEPT ![e] = "loop"]
  /\ UNCHANGED <<loopVars, clientVars, trafficLog, originalFetch, globalFetch, fetches,
                 inflight, lastIndex, entryCalls, returned, recHistory, lastCall, cmpVars,
                 benchVars, flagVars, appended, given, xturns>>

\* turns++; await client.queryRaw({messages, ...})
XIssueCall(e) ==
  /\ xpc[e] = "loop"
  /\ xturns[e] < MaxTurnsBound
  /\ xturns' = [xturns EXCEPT ![e] = @ + 1]
  /\ given' = [given EXCEPT ![e] = heap[transcriptOf[e]]]
  /\ xpc' = [xpc EXCEPT ![e] = "await"]
  /\ UNCHANGED <<loopVars, clientVars, trafficLog, originalFetch, globalFetch, fetches,
                 inflight, lastIndex, entryCalls, returned, recHistory, lastCall, cmpVars,
                 benchVars, flagVars, heap, transcriptOf, appended>>

\* the while condition fails
XBudgetExhausted(e) ==
  /\ xpc[e] = "loop"
  /\ xturns[e] >= MaxTurnsBound
  /\ xpc' = [xpc EXCEPT ![e] = "done"]
  /\ UNCHANGED <<loopVars, clientVars, trafficLog, originalFetch, globalFetch, fetches,
                 inflight, lastIndex, entryCalls, returned, recHistory, lastCall, cmpVars,
                 benchVars, flagVars, heap, transcriptOf, appended, given, xturns>>

\* messages.push({role: "assistant", content: response.content}); then the
\* end_turn branch breaks and the tool_use branch runs the tools
XReceive(e, r) ==
  /\ xpc[e] = "await"
  /\ heap' = [heap EXCEPT ![transcriptOf[e]] = Append(@, Message("assistant", r.content))]
  /\ appended' = [appended EXCEPT ![e] = Append(@, Message("assistant", r.content))]
  /\ xpc' = [xpc EXCEPT ![e] = IF r.stop_reason = "tool_use" THEN "tools" ELSE "done"]
  /\ UNCHANGED <<loopVars, clientVars, trafficLog, originalFetch, globalFetch, fetches,
                 inflight, lastIndex, entryCalls, returned, recHistory, lastCall, cmpVars,
                 benchVars, flagVars, transcriptOf, given, xturns>>

\* the handlers have run: messages.push({role: "user", content: toolResults})
XAppendToolResults(e, v) ==
  /\ xpc[e] = "tools"
  /\ LET entry == Message("user", <<ToolResultBlock("toolu_1", v, FALSE)>>)
     IN  /\ heap' = [heap EXCEPT ![transcriptOf[e]] = Append(@, entry)]
         /\ appended' = [appended EXCEPT ![e] = Append(@, entry)]
  /\ xpc' = [xpc EXCEPT ![e] = "loop"]
  /\ UNCHANGED <<loopVars, clientVars, trafficLog, originalFetch, globalFetch, fetches,
                 inflight, lastIndex, entryCalls, returned, recHistory, lastCall, cmpVars,
                 benchVars, flagVars, transcriptOf, given, xturns>>

OwnInit ==
  /\ LoopEntered(InitialTranscripts, {MaxTurnsBound}, {FALSE})
  /\ ClientConstructed({DefaultRawConfig})
  /\ RecorderLoaded
  /\ BenchIdle
  /\ FlagsIdle
  /\ heap = [ref \in Refs |-> IF ref = "caller" THEN optMessages ELSE <<>>]
  /\ transcriptOf = [e \in Executions |-> "none"]
  /\ appended = [e \in Executions |-> <<>>]
  /\ given = [e \in Executions |-> <<>>]
  /\ xpc = [e \in Executions |-> "idle"]
  /\ xturns = [e \in Executions |-> 0]

OwnNext ==
  \/ \E e \in Executions : Enter(e)
  \/ \E e \in Executions : XIssueCall(e)
  \/ \E e \in Executions : XBudgetExhausted(e)
  \/ \E e \in Executions, r \in OwnReplies : XReceive(e, r)
  \/ \E e \in Executions, v \in HandlerOutputs("calculator") : XAppendToolResults(e, v)

OwnSpec == OwnInit /\ [][OwnNext]_vars

\* ---------------------------------------------------------------- C37
\* C37: the caller's messages array keeps the elements it was passed with
\* whatever the executions do; each execution works on an array of its own,
\* distinct from the caller's and from the other execution's, which holds the
\* copy of the caller's entries followed by exactly the entries that execution
\* pushed; and every client call of an execution is given that copy followed
\* by entries of that execution only.
C37_TranscriptOwned ==
  /\ heap["caller"] = optMessages
  /\ \A e \in Executions :
       xpc[e] # "idle" =>
         /\ transcriptOf[e] # "caller"
         /\ \A o \in Executions \ {e} : transcriptOf[o] # transcriptOf[e]
         /\ heap[transcriptOf[e]] = JsonClone(optMessages) \o appended[e]
         /\ given[e] # <<>> =>
              /\ IsPrefix(given[e], JsonClone(optMessages) \o appended[e])
              /\ Len(given[e]) >= Len(optMessages)

\* both executions have pushed entries, different ones, and execution 1 has
\* made a second call while execution 2 was under way
C37_Witness ==
  /\ appended[1] # <<>> /\ appended[2] # <<>>
  /\ appended[1] # appended[2]
  /\ xturns[1] = 2 /\ xpc[1] = "await" /\ xpc[2] = "tools"

\* ---------------------------------------------------------------- C38
\* the loop left the while loop because turns reached maxTurns
BudgetSpent ==
  /\ pc = "done"
  /\ ~EndedNaturally
  /\ ~UnexpectedStop

\* C38: the content executeToolLoop returns is non-empty only when the latest
\* reply stopped on end_turn, and is then the text of that reply alone; until
\* then, and when the loop ends on the turn budget or on an unexpected stop
\* condition, the content is the empty string whatever text the replies
\* carried.
C38_TextOnlyOnEndTurn ==
  /\ finalContent # "" =>
       /\ pc = "done"
       /\ EndedNaturally
       /\ finalContent = ExtractText(Last(replies).content)
  /\ (pc = "done" /\ (BudgetSpent \/ UnexpectedStop)) => finalContent = ""

\* the budget ran out after two tool_use replies that both carried text
C38_Witness ==
  /\ BudgetSpent
  /\ Len(replies) = 2
  /\ \A k \in 1..2 : SelectSeq(replies[k].content, IsText) # <<>>
  /\ finalContent = ""

\* ---------------------------------------------------------------- C40
\* the onToolUse call of the block at idx threw
CallbackRaised == pc = "aborted" /\ error = "callback"

\* C40: a throwing onToolUse ends the execution for good: nothing is returned
\* and no further step is taken; at that point the result of the block it was
\* called for is the last element of toolCalls and of the turn's toolResults,
\* and the transcript still ends with the assistant entry of the reply, the
\* user entry with the turn's tool results never being pushed.  A throwing
\* handler does not end the execution: its error text is recorded as the
\* result and the loop goes on.
C40_CallbackErrorPropagates ==
  /\ [](CallbackRaised =>
          /\ onToolUse
          /\ toolCalls # <<>>
          /\ Len(toolResults) = idx
          /\ Last(toolCalls) = [name |-> toolUseBlocks[idx].name,
                                input |-> toolUseBlocks[idx].input,
                                result |-> toolResults[idx].content]
          /\ Last(cbLog) = Last(toolCalls)
          /\ Last(messages) = Message("assistant", Last(replies).content)
          /\ Len(messages) = Len(optMessages) + 2 * Len(replies) - 1)
  /\ [][CallbackRaised => FALSE]_vars
  /\ [][CallbackThrows =>
          /\ pc' = "aborted" /\ error' = "callback"
          /\ UNCHANGED <<messages, toolCalls, toolResults, finalContent>>]_vars
  /\ [][Len(outcomes') > Len(outcomes) /\ Last(outcomes') = "raised" =>
          /\ pc' \in {"callback", "tools"}
          /\ error' = "none"
          /\ Last(toolCalls').result = toolResults'[idx].content
          /\ toolResults'[idx].is_error]_vars

\* the handler of the first block threw and the loop went on; the callback
\* threw on the second block of the same reply
C40_Witness ==
  /\ CallbackRaised
  /\ Len(toolCalls) = 2 /\ idx = 2
  /\ outcomes[1] = "raised"
  /\ Len(replies) = 1

\* ======================================================================
\* Calls that complete after clearTrafficLog or disableTrafficLogging
\* ======================================================================

\* The recorder's interface with lastCall remembering the latest call of the
\* interface or of globalThis.fetch, whichever came last.
LateNext ==
  \/ /\ Enable([verbose |-> TRUE, urlFilter |-> <<>>])
     /\ lastCall' = IF originalFetch # <<>> THEN "enable while enabled" ELSE "enable"
  \/ /\ Disable
     /\ lastCall' = IF originalFetch # <<>> THEN "disable" ELSE "disable while disabled"
  \/ Clear /\ lastCall' = "clear"
  \/ \E u \in Urls : IssueFetch(u, <<>>) /\ lastCall' = "fetch"
  \/ \E c \in inflight, st \in Statuses : FetchResolves(c, st) /\ UNCHANGED lastCall
  \/ \E c \in inflight, m \in RejectMessages : FetchRejects(c, m) /\ UNCHANGED lastCall

LateSpec == RecorderInit /\ [][LateNext]_vars

\* call c, made through the hook, settles
Completes(c) ==
  /\ c.via = "recorded"
  /\ \/ \E st \in Statuses : FetchResolves(c, st)
     \/ \E m \in RejectMessages : FetchRejects(c, m)

\* ---------------------------------------------------------------- C39
\* C39: when a call made through the hook settles and the latest call was
\* clearTrafficLog or disableTrafficLogging (so the call was issued before it
\* and none since), the entry of that call is appended to the log as it then
\* is: the log grows by exactly that entry, after a clear from empty, after a
\* disable although logging is off.
C39_LateEntryAppended ==
  [][\A c \in inflight :
       (lastCall \in {"clear", "disable"} /\ Completes(c)) =>
         /\ Len(trafficLog') = Len(trafficLog) + 1
         /\ SubSeq(trafficLog', 1, Len(trafficLog)) = trafficLog
         /\ Last(trafficLog').url = issued[c.id].url
         /\ Last(entryCalls') = c.id
         /\ lastCall = "disable" => ~Enabled /\ globalFetch = NativeFetch]_vars

\* nothing was called since clearTrafficLog, and the log it emptied holds an
\* entry
C39_Witness ==
  /\ lastCall = "clear"
  /\ trafficLog # <<>>

\* ======================================================================
\* Order of the requests of one query (specification ClientSpec)
\* ======================================================================

\* ---------------------------------------------------------------- C34
\* place of a request in the sequence feature flags, inference, telemetry
Stage(r) ==
  IF r.url = EvalUrl THEN 1
  ELSE IF r.url = MessagesUrl THEN 2
  ELSE 3

\* the query in progress, or just ended, of a client in full mode
FullModeQuery == ~cfg.minimal /\ op = "query"

\* C34: the requests of a query of a full-mode client are issued in the order
\* feature-flag request, requests to /v1/messages, telemetry posts.  While
\* the feature-flag fetch is outstanding it is the only request issued for the
\* query; while the quota probe or the inference request is outstanding, and
\* after the query has raised, no telemetry post has been issued for it;
\* telemetry posts exist only for a query that returned on an ok inference
\* response of a client with telemetry on, and are the last requests of the
\* query, issued in the step that takes the response.
C34_FlagsInferenceTelemetry ==
  /\ [](FullModeQuery =>
          /\ \A i, j \in 1..Len(RequestsOf(ops)) :
               i < j => Stage(RequestsOf(ops)[i]) <= Stage(RequestsOf(ops)[j])
          /\ cpc = "flags" => RequestsOf(ops) = <<FlagsRequest(ops)>>
          /\ cpc \in {"quota", "inference", "raised"} => TelemetryOf(ops) = <<>>
          /\ TelemetryOf(ops) # <<>> =>
               /\ cpc = "returned"
               /\ ~cfg.skipTelemetry
               /\ response # <<>> /\ response[1].ok
               /\ TelemetryOf(ops) = TelemetryPosts(ops)
               /\ Len(TranscriptRequests(ops)) = 1
          /\ (cpc = "returned" /\ ~cfg.skipTelemetry) => TelemetryOf(ops) = TelemetryPosts(ops))
  /\ [][(FullModeQuery /\ cpc = "inference" /\ cpc' = "returned") =>
          /\ response' # <<>> /\ response'[1].ok
          /\ net' = net \o (IF cfg.skipTelemetry THEN <<>> ELSE TelemetryPosts(ops))]_vars
  /\ [][(FullModeQuery' /\ \E i \in (Len(net) + 1)..Len(net') : net'[i].body = "messages") =>
          /\ cpc' = "inference"
          /\ net' = Append(net, InferenceRequest("query", ops'))
          /\ (cpc \in {"flags", "quota"}
                \/ (cpc \in {"idle", "returned", "raised"} /\ CacheFresh))]_vars

\* a full-mode query that fetched the flags, probed the quota, got its answer
\* and issued both telemetry posts
C34_Witness ==
  /\ FullModeQuery
  /\ cpc = "returned"
  /\ RequestsOf(ops) = <<FlagsRequest(ops), QuotaRequest(ops), InferenceRequest("query", ops)>>
                         \o TelemetryPosts(ops)

\* ======================================================================
\* Concurrent fetchFeatureFlags calls on one client
\* (src/claude-direct/index.ts, lines 132-170)
\* Each call runs from one await to the next in one step; the calls of
\* different callers interleave at the awaits, and time may pass between.
\* ======================================================================

\* ---------------------------------------------------------------- bounds
\* fetchFeatureFlags calls made on the client
MaxCallers == 2

Callers == 1..MaxCallers

\* data.features of the responses: absent, or one of two different mappings
ConcurrentFeatureSets == FeatureSets \cup { <<{"tengu_b"}>> }

\* the part of the client no fetchFeatureFlags call touches
flagFrame == <<cfg, cpc, op, ops, result, cerror, raisedBy, pending, lastTelemetry,
               response, wire, stream, streamLocals, yielded>>

\* const flags = data.features || {}
FlagsOf(features) == IF features = <<>> THEN {} ELSE features[1]

\* caller k calls fetchFeatureFlags: the code up to `await fetch(...)`, or to
\* the return of the cached value
FetchStarts(k) ==
  /\ fpc[k] = "idle"
  /\ IF cfg.minimal \/ CacheFresh
     THEN /\ fpc' = [fpc EXCEPT ![k] = "returned"]
          /\ net' = net
     ELSE /\ fpc' = [fpc EXCEPT ![k] = "fetching"]
          /\ net' = Append(net, FlagsRequest(k))
  /\ UNCHANGED <<loopVars, flagFrame, featureFlags, featureFlagsExpiry, fetchedAt, now,
                 trafficLog, originalFetch, globalFetch, fetches, inflight, lastIndex,
                 entryCalls, returned, recHistory, lastCall, cmpVars, ownVars, benchVars,
                 fres, processed>>

\* the fetch of caller k resolves with an ok response: on to `await res.json()`
FetchOk(k, features) ==
  /\ fpc[k] = "fetching"
  /\ fpc' = [fpc EXCEPT ![k] = "parsing"]
  /\ fres' = [fres EXCEPT ![k] = <<features>>]
  /\ UNCHANGED <<loopVars, flagFrame, featureFlags, featureFlagsExpiry, fetchedAt, now, net,
                 trafficLog, originalFetch, globalFetch, fetches, inflight, lastIndex,
                 entryCalls, returned, recHistory, lastCall, cmpVars, ownVars, benchVars,
                 processed>>

\* variant: a response that is not ok empties the cache
FetchNotOk_Clears(k) ==
  /\ fpc[k] = "fetching"
  /\ fpc' = [fpc EXCEPT ![k] = "returned"]
  /\ featureFlags' = <<{}>>
  /\ UNCHANGED <<loopVars, flagFrame, featureFlagsExpiry, fetchedAt, now, net,
                 trafficLog, originalFetch, globalFetch, fetches, inflight, lastIndex,
                 entryCalls, returned, recHistory, lastCall, cmpVars, ownVars, benchVars,
                 fres, processed>>

\* if (!res.ok) return {}
FetchNotOk(k) ==
  /\ fpc[k] = "fetching"
  /\ fpc' = [fpc EXCEPT ![k] = "returned"]
  /\ UNCHANGED <<loopVars, flagFrame, featureFlags, featureFlagsExpiry, fetchedAt, now, net,
                 trafficLog, originalFetch, globalFetch, fetches, inflight, lastIndex,
                 entryCalls, returned, recHistory, lastCall, cmpVars, ownVars, benchVars,
                 fres, processed>>

\* the fetch of caller k rejects, or res.json() does: the call rejects
FetchThrows(k) ==
  /\ fpc[k] \in {"fetching", "parsing"}
  /\ fpc' = [fpc EXCEPT ![k] = "raised"]
  /\ UNCHANGED <<loopVars, flagFrame, featureFlags, featureFlagsExpiry, fetchedAt, now, net,
                 trafficLog, originalFetch, globalFetch, fetches, inflight, lastIndex,
                 entryCalls, returned, recHistory, lastCall, cmpVars, ownVars, benchVars,
                 fres, processed>>

\* res.json() resolves: this.featureFlags = flags; this.featureFlagsExpiry =
\* Date.now() + 5 * 60 * 1000; return flags
JsonParsed(k) ==
  /\ fpc[k] = "parsing"
  /\ featureFlags' = <<FlagsOf(fres[k][1])>>
  /\ featureFlagsExpiry' = now + FlagsTtl
  /\ fetchedAt' = now
  /\ processed' = Append(processed, [call |-> k, flags |-> FlagsOf(fres[k][1]), at |-> now])
  /\ fpc' = [fpc EXCEPT ![k] = "returned"]
  /\ UNCHANGED <<loopVars, flagFrame, now, net,
                 trafficLog, originalFetch, globalFetch, fetches, inflight, lastIndex,
                 entryCalls, returned, recHistory, lastCall, cmpVars, ownVars, benchVars,
                 fres>>

ConcurrentInit ==
  /\ LoopEntered({<<Message("user", <<TextBlock("q")>>)>>}, {0}, {FALSE})
  /\ ClientConstructed({FullModeRawConfig})
  /\ RecorderLoaded
  /\ OwnIdle
  /\ BenchIdle
  /\ fpc = [k \in Callers |-> "idle"]
  /\ fres = [k \in Callers |-> <<>>]
  /\ processed = <<>>

ConcurrentNext ==
  \/ \E k \in Callers : FetchStarts(k)
  \/ \E k \in Callers, f \in ConcurrentFeatureSets : FetchOk(k, f)
  \/ \E k \in Callers : FetchNotOk(k)
  \/ \E k \in Callers : FetchThrows(k)
  \/ \E k \in Callers : JsonParsed(k)
  \/ Tick

ConcurrentSpec == ConcurrentInit /\ [][ConcurrentNext]_vars

\* ---------------------------------------------------------------- C35
\* C35: however the calls interleave, the cache is empty exactly as long as no
\* response has been processed; otherwise it holds the flag set of the
\* response processed last, and the expiry is the time of that assignment
\* plus the time to live, both written in one step; the only step that
\* writes the cache is the one that has parsed an ok response, and it writes
\* the flags of that response: a failed fetch writes nothing.
C35_LastWriterWins ==
  /\ [](IF processed = <<>>
          THEN featureFlags = <<>> /\ featureFlagsExpiry = 0
          ELSE /\ featureFlags = <<Last(processed).flags>>
               /\ featureFlagsExpiry = Last(processed).at + FlagsTtl
               /\ \E f \in ConcurrentFeatureSets : featureFlags[1] = FlagsOf(f))
  /\ [][(featureFlags' # featureFlags \/ featureFlagsExpiry' # featureFlagsExpiry) =>
          \E k \in Callers :
            /\ fpc[k] = "parsing" /\ fpc'[k] = "returned"
            /\ featureFlags' = <<FlagsOf(fres[k][1])>>
            /\ featureFlagsExpiry' = now + FlagsTtl
            /\ Len(processed') = Len(processed) + 1]_vars
  /\ [][\A k \in Callers :
          (FetchNotOk(k) \/ FetchThrows(k)) =>
            UNCHANGED <<featureFlags, featureFlagsExpiry>>]_vars

\* two calls raced to fill the empty cache and got different flag sets; the
\* response of the call that started second was processed first, and the
\* cache holds the flags of the other
C35_Witness ==
  /\ \A k \in Callers : fpc[k] = "returned"
  /\ Len(net) = 2 /\ net[1].op = 1 /\ net[2].op = 2
  /\ Len(processed) = 2
  /\ processed[1].call = 2 /\ processed[2].call = 1
  /\ processed[1].flags # processed[2].flags
  /\ featureFlags = <<processed[2].flags>>

\* ======================================================================
\* The benchmark harness (src/claude-direct/testing/benchmark.ts)
\* runBenchmark runs the implementations one after the other; every call of
\* an impl.fn is awaited, so the harness is at one place at a time: about to
\* call (warmup, timed), awaiting a call (warming, timing), returned or
\* rejected.  Durations are whole numbers of milliseconds; a quotient the
\* code computes in floating point is kept as numerator and denominator, and
\* a square root as the number under the root.  Console output other than
\* the comparison lines is not kept.
\* ======================================================================

\* ---------------------------------------------------------------- bounds
\* largest warmup and iterations a caller passes explicitly
MaxWarmup == 1

MaxIterations == 2

\* ------------------------------------------------------------------ data
\* const { warmup = 2, iterations = 5 } = options
DefaultWarmup == 2

DefaultIterations == 5

\* options.implementations, by name
Implementations == <<"direct", "sdk">>

\* performance.now() - start of a measured run, in milliseconds
Durations == {1, 2}

\* options.warmup and options.iterations: <<>> is undefined
WarmupOptions == {<<>>} \cup {<<n>> : n \in 0..MaxWarmup}

IterationOptions == {<<>>} \cup {<<n>> : n \in 0..MaxIterations}

\* ------------------------------------------------------------- operators
RECURSIVE SumOf(_)
SumOf(ts) == IF ts = <<>> THEN 0 ELSE ts[1] + SumOf(Tail(ts))

\* sum of (t - mean)^2 over ts, times Len(ts)^2
RECURSIVE SquaredDeviations(_, _, _)
SquaredDeviations(ts, s, n) ==
  IF ts = <<>> THEN 0
  ELSE (n * ts[1] - s) * (n * ts[1] - s) + SquaredDeviations(Tail(ts), s, n)

\* variant: the median is reported as the mean
calculateStats_MedianAsMean(ts) ==
  LET sorted == SortSeq(ts, <)
      n == Len(ts)
  IN  [mean |-> IF n = 0 THEN [num |-> 0, den |-> 0]
                ELSE [num |-> sorted[(n \div 2) + 1], den |-> 1],
       median |-> IF n = 0 THEN <<>> ELSE <<sorted[(n \div 2) + 1]>>,
       min |-> IF n = 0 THEN <<>> ELSE <<sorted[1]>>,
       max |-> IF n = 0 THEN <<>> ELSE <<sorted[n]>>,
       variance |-> [num |-> SquaredDeviations(ts, SumOf(ts), n), den |-> n * n * n]]

\* calculateStats(times): mean and variance as quotients (0/0 is NaN), the
\* others absent (<<>>) where the code reads past the end of the sorted
\* array; stdDev is the square root of variance
calculateStats(ts) ==
  LET sorted == SortSeq(ts, <)
      n == Len(ts)
  IN  [mean |-> [num |-> SumOf(ts), den |-> n],
       median |-> IF n = 0 THEN <<>> ELSE <<sorted[(n \div 2) + 1]>>,
       min |-> IF n = 0 THEN <<>> ELSE <<sorted[1]>>,
       max |-> IF n = 0 THEN <<>> ELSE <<sorted[n]>>,
       variance |-> [num |-> SquaredDeviations(ts, SumOf(ts), n), den |-> n * n * n]]

\* { name: impl.name, times, ...stats }
BenchmarkResult(name, ts) ==
  [name |-> name, times |-> ts, stats |-> calculateStats(ts)]

\* diff.toFixed(1) for diff = p / q with q > 0, in tenths: the nearest
\* tenth, the one farther from zero of two equally near
ToFixed1(p, q) ==
  IF p >= 0 THEN (20 * p + q) \div (2 * q)
  ELSE 0 - ((20 * (0 - p) + q) \div (2 * q))

\* one line of the comparison section: diff = ((other.mean - baseline.mean)
\* / baseline.mean) * 100; tenths is <<>> where diff is NaN
ComparisonLine(baseline, other) ==
  LET a == baseline.stats.mean
      b == other.stats.mean
      defined == a.den > 0 /\ b.den > 0 /\ a.num > 0
      p == (b.num * a.den - a.num * b.den) * 100
      q == a.num * b.den
      faster == defined /\ p < 0
  IN  [name |-> other.name,
       baseline |-> baseline.name,
       prefix |-> IF faster THEN "" ELSE "+",
       tenths |-> IF defined THEN <<ToFixed1(p, q)>> ELSE <<>>,
       verdict |-> IF faster THEN "faster" ELSE "slower"]

\* if (results.length >= 2) one line per result after the first
Comparison(rs) ==
  IF Len(rs) >= 2
  THEN [k \in 1..(Len(rs) - 1) |-> ComparisonLine(rs[1], rs[k + 1])]
  ELSE <<>>

benchFrame == <<loopVars, clientVars, trafficLog, originalFetch, globalFetch, fetches,
                inflight, lastIndex, entryCalls, returned, recHistory, lastCall, cmpVars,
                ownVars, flagVars, warmup, iterations>>

\* --------------------------------------------------------------- actions
\* warmup loop: await impl.fn()
WarmupCall ==
  /\ bpc = "warmup"
  /\ runIndex < warmup
  /\ runs' = Append(runs, [impl |-> impl, measured |-> FALSE, outcome |-> "pending",
                           elapsed |-> <<>>])
  /\ bpc' = "warming"
  /\ UNCHANGED <<benchFrame, impl, runIndex, times, results, comparisonLines>>

WarmupReturns ==
  /\ bpc = "warming"
  /\ runs' = [runs EXCEPT ![Len(runs)].outcome = "returned"]
  /\ runIndex' = runIndex + 1
  /\ bpc' = "warmup"
  /\ UNCHANGED <<benchFrame, impl, times, results, comparisonLines>>

\* a rejected impl.fn() is caught nowhere
WarmupThrows ==
  /\ bpc = "warming"
  /\ runs' = [runs EXCEPT ![Len(runs)].outcome = "threw"]
  /\ bpc' = "rejected"
  /\ UNCHANGED <<benchFrame, impl, runIndex, times, results, comparisonLines>>

\* the warmup loop ends: const times = []
WarmupDone ==
  /\ bpc = "warmup"
  /\ runIndex >= warmup
  /\ times' = <<>>
  /\ runIndex' = 0
  /\ bpc' = "timed"
  /\ UNCHANGED <<benchFrame, impl, results, runs, comparisonLines>>

\* timed loop: const start = performance.now(); await impl.fn()
TimedCall ==
  /\ bpc = "timed"
  /\ runIndex < iterations
  /\ runs' = Append(runs, [impl |-> impl, measured |-> TRUE, outcome |-> "pending",
                           elapsed |-> <<>>])
  /\ bpc' = "timing"
  /\ UNCHANGED <<benchFrame, impl, runIndex, times, results, comparisonLines>>

\* const elapsed = performance.now() - start; times.push(elapsed)
TimedReturns(d) ==
  /\ bpc = "timing"
  /\ runs' = [runs EXCEPT ![Len(runs)].outcome = "returned", ![Len(runs)].elapsed = <<d>>]
  /\ times' = Append(times, d)
  /\ runIndex' = runIndex + 1
  /\ bpc' = "timed"
  /\ UNCHANGED <<benchFrame, impl, results, comparisonLines>>

\* variant: a failed measured run is skipped and the loop goes on
TimedThrows_Skips ==
  /\ bpc = "timing"
  /\ runs' = [runs EXCEPT ![Len(runs)].outcome = "threw"]
  /\ runIndex' = runIndex + 1
  /\ bpc' = "timed"
  /\ UNCHANGED <<benchFrame, impl, times, results, comparisonLines>>

TimedThrows ==
  /\ bpc = "timing"
  /\ runs' = [runs EXCEPT ![Len(runs)].outcome = "threw"]
  /\ bpc' = "rejected"
  /\ UNCHANGED <<benchFrame, impl, runIndex, times, results, comparisonLines>>

\* the timed loop ends: results.push({name, times, ...stats}); then the next
\* implementation, or the comparison section and the return
ImplementationDone ==
  /\ bpc = "timed"
  /\ runIndex >= iterations
  /\ results' = Append(results, BenchmarkResult(Implementations[impl], times))
  /\ IF impl < Len(Implementations)
     THEN /\ impl' = impl + 1
          /\ runIndex' = 0
          /\ bpc' = "warmup"
          /\ comparisonLines' = comparisonLines
     ELSE /\ comparisonLines' = Comparison(results')
          /\ bpc' = "returned"
          /\ UNCHANGED <<impl, runIndex>>
  /\ UNCHANGED <<benchFrame, times, runs>>

\* runBenchmark(options) has run up to the first implementation's warmup loop
BenchInit ==
  /\ LoopEntered({<<Message("user", <<TextBlock("q")>>)>>}, {0}, {FALSE})
  /\ ClientConstructed({DefaultRawConfig})
  /\ RecorderLoaded
  /\ OwnIdle
  /\ FlagsIdle
  /\ warmup \in {Coalesce(w, DefaultWarmup) : w \in WarmupOptions}
  /\ iterations \in {Coalesce(n, DefaultIterations) : n \in IterationOptions}
  /\ impl = 1
  /\ runIndex = 0
  /\ times = <<>>
  /\ results = <<>>
  /\ bpc = "warmup"
  /\ runs = <<>>
  /\ comparisonLines = <<>>

BenchNext ==
  \/ WarmupCall
  \/ WarmupReturns
  \/ WarmupThrows
  \/ WarmupDone
  \/ TimedCall
  \/ \E d \in Durations : TimedReturns(d)
  \/ TimedThrows
  \/ ImplementationDone

BenchSpec == BenchInit /\ [][BenchNext]_vars

\* ---------------------------------------------------------------- C31
\* the calls runBenchmark makes when no call fails: for each implementation
\* in list order, warmup calls and then iterations measured calls
RECURSIVE ScheduleUpTo(_)
ScheduleUpTo(k) ==
  IF k = 0 THEN <<>>
  ELSE ScheduleUpTo(k - 1) \o
       [i \in 1..(warmup + iterations) |-> [impl |-> k, measured |-> i > warmup]]

Schedule == ScheduleUpTo(Len(Implementations))

\* which implementation each call so far ran, and whether it was measured
RunKinds == [i \in 1..Len(runs) |-> [impl |-> runs[i].impl, measured |-> runs[i].measured]]

\* the durations of the measured calls of implementation k that returned
MeasuredTimes(k) ==
  LET own == SelectSeq(runs, LAMBDA r : r.impl = k /\ r.measured /\ r.outcome = "returned")
  IN  [i \in 1..Len(own) |-> own[i].elapsed[1]]

\* C31: the calls made are at every moment an initial part of the schedule
\* (per implementation in list order, warmup calls then iterations measured
\* calls), and the whole schedule when runBenchmark returns; a call is made
\* only when the one before has settled; times holds the durations of the
\* measured calls of the implementation being run and nothing of the warmup
\* calls, and each result carries exactly iterations durations; a call that
\* throws is the last call made: runBenchmark rejects and nothing runs after.
C31_RunsAndFailures ==
  /\ [](IsPrefix(RunKinds, Schedule))
  /\ [](bpc = "returned" =>
          /\ RunKinds = Schedule
          /\ \A i \in 1..Len(runs) : runs[i].outcome = "returned"
          /\ Len(results) = Len(Implementations)
          /\ \A k \in 1..Len(results) :
               /\ results[k].name = Implementations[k]
               /\ results[k].times = MeasuredTimes(k)
               /\ Len(results[k].times) = iterations
               /\ Len(SelectSeq(runs, LAMBDA r : r.impl = k)) = warmup + iterations)
  /\ [](\A i \in 1..Len(runs) :
          /\ runs[i].outcome = "pending" => (i = Len(runs) /\ bpc \in {"warming", "timing"})
          /\ runs[i].outcome = "threw" => (i = Len(runs) /\ bpc = "rejected"))
  /\ [](bpc \in {"timed", "timing"} => times = MeasuredTimes(impl))
  /\ [][TimedThrows => (bpc' = "rejected" /\ UNCHANGED <<times, results>>)]_vars
  /\ [][bpc = "rejected" => FALSE]_vars

\* the second implementation failed in its second measured run, after its
\* warmup calls and one measured run, the first implementation having finished
C31_Witness ==
  /\ bpc = "rejected"
  /\ impl = 2 /\ Len(results) = 1
  /\ warmup = 2 /\ iterations = 5
  /\ Last(runs).measured /\ Last(runs).outcome = "threw"
  /\ Len(times) = 1
  /\ Len(runs) = 2 + 5 + 2 + 2

\* ---------------------------------------------------------------- C32
\* the quotient m is the arithmetic mean of the durations ts
IsMeanOf(m, ts) == m.den > 0 /\ m.num * Len(ts) = SumOf(ts) * m.den

\* t tenths of a percent is ((sk/n - s1/n) / (s1/n)) * 100 to the nearest tenth
IsDeviationOf(t, s1, sk) ==
  LET off == t * s1 - 1000 * (sk - s1)
  IN  2 * off <= s1 /\ 2 * (0 - off) <= s1

\* both implementations ran five measured runs, the first always d long and
\* the second always 2d
Doubled(d) ==
  /\ bpc = "returned"
  /\ results[1].times = [i \in 1..5 |-> d]
  /\ results[2].times = [i \in 1..5 |-> 2 * d]

\* C32: the mean of every result with measured durations is their arithmetic
\* mean, between their minimum and their maximum; when runBenchmark returns
\* there is one comparison line per implementation after the first, naming
\* it and the first, whose figure is ((mean_i - mean_first) / mean_first) *
\* 100 to one decimal, with a plus sign unless the mean is lower; and when the
\* second implementation always takes double the first's fixed duration over
\* five runs, its mean is double the first's and the line reads +100.0%.
C32_MeanAndDeviation ==
  /\ \A k \in 1..Len(results) :
       results[k].times # <<>> =>
         /\ IsMeanOf(results[k].stats.mean, results[k].times)
         /\ results[k].stats.min[1] * results[k].stats.mean.den <= results[k].stats.mean.num
         /\ results[k].stats.mean.num <= results[k].stats.max[1] * results[k].stats.mean.den
  /\ bpc = "returned" =>
       /\ Len(comparisonLines) = Len(results) - 1
       /\ \A k \in 2..Len(results) :
            LET line == comparisonLines[k - 1] IN
              /\ line.name = results[k].name
              /\ line.baseline = results[1].name
              /\ iterations > 0 =>
                   /\ line.tenths # <<>>
                   /\ IsDeviationOf(line.tenths[1], SumOf(results[1].times),
                                    SumOf(results[k].times))
                   /\ line.prefix = (IF SumOf(results[k].times) < SumOf(results[1].times)
                                       THEN "" ELSE "+")
  /\ \A d \in Durations :
       Doubled(d) =>
         /\ results[2].stats.mean.num * results[1].stats.mean.den
              = 2 * results[1].stats.mean.num * results[2].stats.mean.den
         /\ comparisonLines = <<[name |-> "sdk", baseline |-> "direct", prefix |-> "+",
                                 tenths |-> <<1000>>, verdict |-> "slower"]>>

\* five runs of 1 ms against five runs of 2 ms
C32_Witness ==
  /\ Doubled(1)
  /\ iterations = 5
  /\ comparisonLines[1].tenths = <<1000>>
====
